---- MODULE Spec2Model ----
(***************************************************************************)
(* The effect resolution engine of src/src/App.tsx: applyOverwriteRules,   *)
(* buildBuffLanes and computeStatsAtTime as operators over sequences of    *)
(* BuffInstance records, and the calls App makes to them as actions.       *)
(*                                                                         *)
(* Numbers.  Times are integers: ticks where only the engine is modelled,  *)
(* hundredths of a second where the editor is.  A Buff's value is kept in  *)
(* hundredths (0.30 is 30), so totals are hundredths and a computed stat   *)
(* base * (1 + total) is kept as base * (100 + total), i.e. in hundredths  *)
(* of a stat point.  Floating-point rounding is not modelled.              *)
(*                                                                         *)
(* Strings.  A template string `${a}:${b}` is modelled as the tuple        *)
(* <<a, b>>: equal exactly when the parts are equal (no part holds the     *)
(* delimiter).  An instance id is a number; localeCompare on ids is the    *)
(* order of those numbers (a total order on distinct ids).                 *)
(***************************************************************************)
EXTENDS Integers, Sequences, FiniteSets, TLC

VARIABLES
  students,         \* App state: Student[]
  events,           \* App state: ExEvent[]
  timelineSeconds,  \* App state
  timeStep,         \* App state
  drag,             \* dragRef.current
  created,          \* how many event ids createId has made
  nextStudentRef,   \* nextStudentRef.current
  steps,            \* how many handlers have run since App was mounted
  raw,              \* the instances given to applyOverwriteRules
  resolved,         \* App.buffInstances: what applyOverwriteRules returned
  permuted,         \* a run of applyOverwriteRules: its input and its output
  again,            \* applyOverwriteRules of permuted.output
  lanes,            \* App.buffLanesByStudent, for one target
  stats,            \* App.inspectStats, for one target and time
  pc                \* what was computed last

editor == <<students, events, timelineSeconds, timeStep, drag, created, nextStudentRef,
           steps>>

vars == <<students, events, timelineSeconds, timeStep, drag, created, nextStudentRef, steps,
          raw, resolved, permuted, again, lanes, stats, pc>>

\* Longest raw instance list drawn in Init.
MaxRaw == 3

\* Longest instance list drawn in InitStats.
MaxStack == 2

\* Longest event list drawn in InitBuild.
MaxEvents == 2

\* Longest explicit target id list drawn in InitTargets.
MaxIds == 2

ENEMY_ID == "enemy"

\* An optional value: <<>> is undefined, <<x>> is x.
None == <<>>
Some(x) == <<x>>

\* o ?? d
OrElse(o, d) == IF o = <<>> THEN d ELSE o[1]

\* list?.length, as a condition: the list is there and is not empty.
HasLength(o) == o # <<>> /\ Len(o[1]) > 0

Min(a, b) == IF a <= b THEN a ELSE b
Max(a, b) == IF a >= b THEN a ELSE b

Range(s) == {s[i] : i \in DOMAIN s}
Last(s) == s[Len(s)]
Front(s) == SubSeq(s, 1, Len(s) - 1)

RECURSIVE Dedup(_)
\* The keys of a Map in insertion order: first occurrences, in order.
Dedup(s) ==
  IF s = <<>> THEN <<>>
  ELSE <<Head(s)>> \o Dedup(SelectSeq(Tail(s), LAMBDA x : x # Head(s)))

(***************************************************************************)
(* buildBuffInstances                                                      *)
(*                                                                         *)
(* Event ids and Buff ids are numbers, student ids are strings.  The       *)
(* parameters nsEnabled and nsTargets are not read by the function.        *)
(***************************************************************************)

\* The least element of a non-empty set of numbers.
MinOf(S) == CHOOSE i \in S : \A j \in S : i <= j

\* Mutant of FindStudent: an owner who is not found is taken to be the first student.
FindStudentOrFirst(studentList, studentId) ==
  LET hits == {i \in 1..Len(studentList) : studentList[i].id = studentId}
  IN IF hits = {} THEN Some(studentList[1]) ELSE Some(studentList[MinOf(hits)])

\* students.find((item) => item.id === event.studentId)
FindStudent(studentList, studentId) ==
  LET hits == {i \in 1..Len(studentList) : studentList[i].id = studentId}
  IN IF hits = {} THEN None ELSE Some(studentList[MinOf(hits)])

\* The skill an event places: one of the owner's ex skills, or the owner's ns.
FindSkill(student, skillType, skillId) ==
  IF skillType = "ex"
  THEN LET hits == {i \in 1..Len(student.ex) : student.ex[i].id = skillId}
       IN IF hits = {} THEN None ELSE Some(student.ex[MinOf(hits)])
  ELSE IF student.ns # None /\ student.ns[1].id = skillId
       THEN student.ns
       ELSE None

\* event.buffTargets?.[buff.id]
Override(event, buff) ==
  IF buff.id \in DOMAIN event.buffTargets
  THEN Some(event.buffTargets[buff.id])
  ELSE None

\* Mutant of TargetModeOf: the effect definition's mode comes before the override's.
TargetModeOfDefinitionFirst(event, buff) ==
  LET override == Override(event, buff)
  IN IF buff.target # None THEN buff.target[1]
     ELSE IF override # None THEN override[1].target
     ELSE event.target

\* override?.target ?? buff.target ?? event.target
TargetModeOf(event, buff) ==
  LET override == Override(event, buff)
  IN IF override # None THEN override[1].target
     ELSE OrElse(buff.target, event.target)

\* The rank of a target id among the ids: the last part of an instance id.
TargetRank(targetId) ==
  CASE targetId = ENEMY_ID -> 0
    [] targetId = "s.student_a" -> 1
    [] targetId = "s.student_b" -> 2
    [] OTHER -> 3

\* `${event.id}:${buff.id}:${targetStudentId}`: the three parts, in this order.
InstanceId(eventId, buffId, targetId) ==
  (eventId * 10 + buffId) * 10 + TargetRank(targetId)

RawTargets(event, buff, targetMode, allStudentIds) ==
  LET override == Override(event, buff)
  IN IF targetMode = "enemy" THEN <<ENEMY_ID>>
     ELSE IF targetMode = "student"
     THEN IF override # None /\ HasLength(override[1].targetStudentIds)
          THEN override[1].targetStudentIds[1]
          ELSE IF buff.target # None
               THEN IF HasLength(buff.targetStudentIds)
                    THEN buff.targetStudentIds[1]
                    ELSE <<event.studentId>>
               ELSE IF HasLength(event.targetStudentIds)
                    THEN event.targetStudentIds[1]
                    ELSE <<event.studentId>>
     ELSE IF targetMode = "all" THEN allStudentIds
     ELSE <<event.studentId>>

\* Mutant of FinalTargets: mode enemy takes its targets from the id lists, as
\* mode student does.
FinalTargetsEnemyAsStudent(event, buff, allStudentIds) ==
  LET targetMode == IF TargetModeOf(event, buff) = "enemy" THEN "student"
                    ELSE TargetModeOf(event, buff)
      allTargetIds == Range(allStudentIds) \cup {ENEMY_ID}
      target == SelectSeq(RawTargets(event, buff, targetMode, allStudentIds),
                          LAMBDA id : id \in allTargetIds)
  IN IF target # <<>> THEN target ELSE <<event.studentId>>

\* Mutant of FinalTargets: the raw targets are not filtered against the ids
\* of the students and the enemy.
FinalTargetsUnfiltered(event, buff, allStudentIds) ==
  LET targetMode == TargetModeOf(event, buff)
      target == RawTargets(event, buff, targetMode, allStudentIds)
  IN IF targetMode = "enemy" THEN <<ENEMY_ID>>
     ELSE IF target # <<>> THEN target
     ELSE <<event.studentId>>

FinalTargets(event, buff, allStudentIds) ==
  LET targetMode == TargetModeOf(event, buff)
      allTargetIds == Range(allStudentIds) \cup {ENEMY_ID}
      target == SelectSeq(RawTargets(event, buff, targetMode, allStudentIds),
                          LAMBDA id : id \in allTargetIds)
  IN IF targetMode = "enemy" THEN <<ENEMY_ID>>
     ELSE IF target # <<>> THEN target
     ELSE <<event.studentId>>

\* Mutant of DurationOf: an attack lasts as long as its cast event, as a buff does.
DurationOfEventFirst(event, buff, step) ==
  OrElse(event.duration, OrElse(buff.duration, step))

\* kind === "attack" ? Math.max(timeStep, buff.duration ?? timeStep)
\*                   : event.duration ?? buff.duration ?? timeStep
DurationOf(event, buff, step) ==
  IF OrElse(buff.kind, "buff") = "attack"
  THEN Max(step, OrElse(buff.duration, step))
  ELSE OrElse(event.duration, OrElse(buff.duration, step))

\* Mutant of EndOf: the end is not clipped to the timeline.
EndOfUnclipped(event, buff, seconds, step) ==
  event.start + DurationOf(event, buff, step)

\* Math.min(event.start + duration, timelineSeconds)
EndOf(event, buff, seconds, step) ==
  Min(event.start + DurationOf(event, buff, step), seconds)

\* Mutant of BuffInstancesOf: sourceBuffId is the id of the first effect of
\* the skill, not of the effect the instance comes from.
BuffInstancesOfFirstEffect(student, skill, event, buff, allStudentIds, seconds, step) ==
  LET finalTargets == FinalTargets(event, buff, allStudentIds)
      end == EndOf(event, buff, seconds, step)
  IN [i \in 1..Len(finalTargets) |->
       [id |-> InstanceId(event.id, buff.id, finalTargets[i]),
        studentId |-> finalTargets[i],
        sourceStudentId |-> student.id,
        name |-> buff.name,
        kind |-> OrElse(buff.kind, "buff"),
        stat |-> buff.stat,
        value |-> buff.value,
        start |-> event.start,
        end |-> end,
        stackGroup |-> buff.stackGroup,
        source |-> event.skillType,
        sourceId |-> skill.id,
        sourceEventId |-> event.id,
        sourceBuffId |-> skill.buffs[1].id]]

\* The instances one buff of the skill of one event pushes.
BuffInstancesOf(student, skill, event, buff, allStudentIds, seconds, step) ==
  LET finalTargets == FinalTargets(event, buff, allStudentIds)
      end == EndOf(event, buff, seconds, step)
  IN [i \in 1..Len(finalTargets) |->
       [id |-> InstanceId(event.id, buff.id, finalTargets[i]),
        studentId |-> finalTargets[i],
        sourceStudentId |-> student.id,
        name |-> buff.name,
        kind |-> OrElse(buff.kind, "buff"),
        stat |-> buff.stat,
        value |-> buff.value,
        start |-> event.start,
        end |-> end,
        stackGroup |-> buff.stackGroup,
        source |-> event.skillType,
        sourceId |-> skill.id,
        sourceEventId |-> event.id,
        sourceBuffId |-> buff.id]]

\* The instances one event pushes: none when its owner or its skill is missing.
EventInstances(studentList, event, seconds, step) ==
  LET student == FindStudent(studentList, event.studentId)
      skill == IF student = None THEN None
               ELSE FindSkill(student[1], event.skillType, event.skillId)
      allStudentIds == [i \in 1..Len(studentList) |-> studentList[i].id]
  IN IF student = None \/ skill = None THEN <<>>
     ELSE LET buffs == skill[1].buffs
              f[i \in 0..Len(buffs)] ==
                IF i = 0 THEN <<>>
                ELSE f[i - 1] \o BuffInstancesOf(student[1], skill[1], event, buffs[i],
                                                 allStudentIds, seconds, step)
          IN f[Len(buffs)]

buildBuffInstances(studentList, eventList, nsEnabled, nsTargets, seconds, step) ==
  LET f[i \in 0..Len(eventList)] ==
        IF i = 0 THEN <<>>
        ELSE f[i - 1] \o EventInstances(studentList, eventList[i], seconds, step)
  IN f[Len(eventList)]

(***************************************************************************)
(* applyOverwriteRules                                                     *)
(***************************************************************************)

\* Mutant of SlotKey: the stack group is left out of the key.
SlotKeyNoGroup(buff) == <<buff.studentId, buff.stat, buff.kind>>

\* `${buff.studentId}:${buff.stat}:${buff.stackGroup}:${buff.kind}`
SlotKey(buff) == <<buff.studentId, buff.stat, buff.stackGroup, buff.kind>>

\* a.id.localeCompare(b.id)
LocaleCompare(a, b) == IF a < b THEN -1 ELSE IF a > b THEN 1 ELSE 0

\* Mutant of OverwriteOrder: the starts are subtracted the other way round.
OverwriteOrderLatestFirst(a, b) ==
  IF a.start # b.start THEN b.start - a.start ELSE LocaleCompare(a.id, b.id)

\* Mutant of OverwriteOrder: the id tie-break is left out.
OverwriteOrderByStart(a, b) == a.start - b.start

\* (a, b) => a.start - b.start || a.id.localeCompare(b.id)
OverwriteOrder(a, b) ==
  IF a.start # b.start THEN a.start - b.start ELSE LocaleCompare(a.id, b.id)

RECURSIVE InsertOverwrite(_, _)
\* x placed before the first element the comparator puts strictly after it.
InsertOverwrite(x, s) ==
  IF s = <<>> THEN <<x>>
  ELSE IF OverwriteOrder(x, Head(s)) < 0 THEN <<x>> \o s
  ELSE <<Head(s)>> \o InsertOverwrite(x, Tail(s))

\* Mutant of SortOverwrite: the group is swept in input order, unsorted.
SortOverwriteNone(list) == list

\* list.sort(comparator): Array.prototype.sort is stable.
SortOverwrite(list) ==
  LET f[i \in 0..Len(list)] ==
        IF i = 0 THEN <<>> ELSE InsertOverwrite(list[i], f[i - 1])
  IN f[Len(list)]

\* The Map `grouped`: its keys in insertion order.
GroupKeys(instances) ==
  Dedup([i \in 1..Len(instances) |-> SlotKey(instances[i])])

\* The list stored under one key: the copies of its instances in input order.
GroupList(instances, key) ==
  SelectSeq(instances, LAMBDA buff : SlotKey(buff) = key)

\* Mutant of TrimStep: the last kept instance is never trimmed.
TrimStepNoTrim(trimmed, buff) == Append(trimmed, buff)

\* Mutant of TrimStep: an instance that starts inside the last kept one is
\* dropped, and the last kept one runs on.
TrimStepEarlierWins(trimmed, buff) ==
  IF trimmed # <<>> /\ buff.start < Last(trimmed).end
  THEN trimmed
  ELSE Append(trimmed, buff)

\* One step of sorted.forEach: trim (or drop) the last kept instance, push buff.
TrimStep(trimmed, buff) ==
  IF trimmed # <<>> /\ buff.start < Last(trimmed).end
  THEN LET last == Last(trimmed)
           newEnd == Min(last.end, buff.start)
           kept == IF newEnd <= last.start
                   THEN Front(trimmed)
                   ELSE [trimmed EXCEPT ![Len(trimmed)].end = newEnd]
       IN Append(kept, buff)
  ELSE Append(trimmed, buff)

\* sorted.forEach(...): the sweep over one sorted group.
TrimSorted(sorted) ==
  LET f[i \in 0..Len(sorted)] ==
        IF i = 0 THEN <<>> ELSE TrimStep(f[i - 1], sorted[i])
  IN f[Len(sorted)]

\* trimmed.forEach(...): what one group adds to result.
ResolveGroup(list) ==
  SelectSeq(TrimSorted(SortOverwrite(list)), LAMBDA buff : buff.end > buff.start)

\* grouped.forEach(...): the groups' results, in the order of the Map's keys.
applyOverwriteRules(instances) ==
  LET keys == GroupKeys(instances)
      f[i \in 0..Len(keys)] ==
        IF i = 0 THEN <<>>
        ELSE f[i - 1] \o ResolveGroup(GroupList(instances, keys[i]))
  IN f[Len(keys)]

\* Mutant of PushedObject: the input object itself is pushed, list.push(buff).
PushedObjectShared(buff, place) == [origin |-> place] @@ buff

\* list.push({ ...buff }): the object a group holds for the instance at a
\* place of the input is a new object with the fields of the input object.
\* origin is the place of the input object that the held object is, 0 when
\* it is no object of the input.
PushedObject(buff, place) == [origin |-> 0] @@ buff

\* The input after the call. last.end = Math.min(last.end, buff.start) writes
\* to an object a group holds; the instance at a place of the input changes
\* when a held object is that input object.
InputAfterOverwrite(instances) ==
  LET held == [i \in 1..Len(instances) |-> PushedObject(instances[i], i)]
      keys == GroupKeys(held)
      f[i \in 0..Len(keys)] ==
        IF i = 0 THEN <<>>
        ELSE f[i - 1] \o TrimSorted(SortOverwrite(GroupList(held, keys[i])))
      swept == f[Len(keys)]
  IN [i \in 1..Len(instances) |->
        IF \E k \in 1..Len(swept) : swept[k].origin = i
        THEN [instances[i] EXCEPT !.end =
                swept[CHOOSE k \in 1..Len(swept) : swept[k].origin = i].end]
        ELSE instances[i]]

(***************************************************************************)
(* buildBuffLanes                                                          *)
(***************************************************************************)

\* (a, b) => a.start - b.start
LaneOrder(a, b) == a.start - b.start

RECURSIVE InsertLane(_, _)
InsertLane(x, s) ==
  IF s = <<>> THEN <<x>>
  ELSE IF LaneOrder(x, Head(s)) < 0 THEN <<x>> \o s
  ELSE <<Head(s)>> \o InsertLane(x, Tail(s))

\* [...buffs].sort(comparator): a stable sort of a copy.
SortLanes(buffs) ==
  LET f[i \in 0..Len(buffs)] ==
        IF i = 0 THEN <<>> ELSE InsertLane(buffs[i], f[i - 1])
  IN f[Len(buffs)]

\* Mutant of FindLane: the comparison is turned round (buff.start <= end).
FindLaneFlipped(laneEnds, buff) ==
  LET hits == {i \in 1..Len(laneEnds) : buff.start <= laneEnds[i]}
  IN IF hits = {} THEN -1
     ELSE (CHOOSE i \in hits : \A j \in hits : i <= j) - 1

\* Mutant of FindLane: no lane is ever found free.
FindLaneNone(laneEnds, buff) == -1

\* laneEnds.findIndex((end) => buff.start >= end), 0-based; -1 when there is none.
FindLane(laneEnds, buff) ==
  LET hits == {i \in 1..Len(laneEnds) : buff.start >= laneEnds[i]}
  IN IF hits = {} THEN -1
     ELSE (CHOOSE i \in hits : \A j \in hits : i <= j) - 1

\* One step of sorted.forEach on the pair (laneEnds, laneMap).
LaneStep(acc, buff) ==
  LET found == FindLane(acc.laneEnds, buff)
      laneIndex == IF found = -1 THEN Len(acc.laneEnds) ELSE found
      ends == IF found = -1
              THEN Append(acc.laneEnds, buff.end)
              ELSE [acc.laneEnds EXCEPT ![laneIndex + 1] = buff.end]
  IN [laneEnds |-> ends,
      laneMap |-> [id \in DOMAIN acc.laneMap \cup {buff.id} |->
                     IF id = buff.id THEN laneIndex ELSE acc.laneMap[id]]]

buildBuffLanes(buffs) ==
  LET sorted == SortLanes(buffs)
      f[i \in 0..Len(sorted)] ==
        IF i = 0 THEN [laneEnds |-> <<>>, laneMap |-> <<>>]
        ELSE LaneStep(f[i - 1], sorted[i])
      final == f[Len(sorted)]
  IN [laneMap |-> final.laneMap, laneCount |-> Max(1, Len(final.laneEnds))]

(***************************************************************************)
(* computeStatsAtTime                                                      *)
(***************************************************************************)

\* Mutant of ActiveAt: the interval is closed at its end (time <= item.end).
ActiveAtClosed(target, time, instances) ==
  SelectSeq(instances, LAMBDA item :
    item.studentId = target.id /\ item.start <= time /\ time <= item.end)

\* instances.filter(...): the instances of the target that are active at time.
ActiveAt(target, time, instances) ==
  SelectSeq(instances, LAMBDA item :
    item.studentId = target.id /\ item.start <= time /\ time < item.end)

\* `${buff.stat}:${buff.stackGroup}:${buff.kind}`
StackKey(buff) == <<buff.stat, buff.stackGroup, buff.kind>>

\* Mutant of StackStep: the first instance of a key is never replaced.
StackStepKeepFirst(stacked, buff) ==
  IF \E i \in 1..Len(stacked) : StackKey(stacked[i]) = StackKey(buff)
  THEN stacked
  ELSE Append(stacked, buff)

\* One step of active.forEach on the Map `stacked`, kept as the sequence of
\* its values in the insertion order of their keys.
StackStep(stacked, buff) ==
  LET same == {i \in 1..Len(stacked) : StackKey(stacked[i]) = StackKey(buff)}
  IN IF same = {} THEN Append(stacked, buff)
     ELSE LET i == CHOOSE k \in same : TRUE
          IN IF buff.start > stacked[i].start
             THEN [stacked EXCEPT ![i] = buff]
             ELSE stacked

Stacked(active) ==
  LET f[i \in 0..Len(active)] ==
        IF i = 0 THEN <<>> ELSE StackStep(f[i - 1], active[i])
  IN f[Len(active)]

\* One step of Array.from(stacked.values()).forEach on totals.
TotalStep(totals, buff) ==
  IF buff.kind = "attack" THEN totals
  ELSE LET sign == IF buff.kind = "debuff" THEN -1 ELSE 1
       IN [totals EXCEPT ![buff.stat] = @ + buff.value * sign]

Totals(stacked) ==
  LET f[i \in 0..Len(stacked)] ==
        IF i = 0 THEN [atk |-> 0, crit |-> 0, critDmg |-> 0]
        ELSE TotalStep(f[i - 1], stacked[i])
  IN f[Len(stacked)]

\* base * (1 + total), in hundredths.
Computed(stats0, totals) ==
  [atk |-> stats0.atk * (100 + totals.atk),
   crit |-> stats0.crit * (100 + totals.crit),
   critDmg |-> stats0.critDmg * (100 + totals.critDmg)]

computeStatsAtTime(target, time, instances) ==
  LET active == ActiveAt(target, time, instances)
      totals == Totals(Stacked(active))
  IN [active |-> active, totals |-> totals,
      computed |-> Computed(target.stats, totals)]

(***************************************************************************)
(* The raw instance lists given to the engine                              *)
(***************************************************************************)

STUDENT_A == "s.student_a"
STUDENT_B == "s.student_b"

\* A Buff.
Buff(id, kind, stat, value, duration, stackGroup, target) ==
  [id |-> id, name |-> "effect", kind |-> kind, stat |-> stat, value |-> value,
   duration |-> duration, stackGroup |-> stackGroup,
   target |-> target, targetStudentIds |-> None]

\* The students of the model: defaultStudents with durations in ticks, and, as
\* the skill editor lets them be added, attacks on the enemy whose durations
\* are 0 and 2, and a debuff on the enemy that has no duration.
ModelStudents ==
  <<[id |-> STUDENT_A,
     stats |-> [atk |-> 1050, crit |-> 200, critDmg |-> 200],
     ns |-> Some([id |-> "ns_student_a",
                  buffs |-> <<Buff(1, Some("buff"), "atk", 15, Some(3), "ns", None)>>]),
     ex |-> <<[id |-> "ex_student_a_1",
               buffs |-> <<Buff(2, Some("buff"), "atk", 30, Some(2), "field", None),
                           Buff(3, Some("buff"), "crit", 20, Some(2), "field", None)>>]>>],
    [id |-> STUDENT_B,
     stats |-> [atk |-> 820, crit |-> 150, critDmg |-> 175],
     ns |-> Some([id |-> "ns_student_b",
                  buffs |-> <<Buff(4, Some("buff"), "atk", 12, Some(3), "ns", None)>>]),
     ex |-> <<[id |-> "ex_student_b_1",
               buffs |-> <<Buff(5, Some("buff"), "atk", 20, Some(2), "field", None),
                           Buff(6, Some("attack"), "atk", 100, Some(0), "field", Some("enemy")),
                           Buff(7, Some("debuff"), "atk", 10, None, "field", Some("enemy")),
                           Buff(8, Some("attack"), "crit", 100, Some(2), "field", Some("enemy"))>>]>>]>>

\* The actors a query can name: a student and the enemy, with their base stats.
StatTargets ==
  {[id |-> STUDENT_A, stats |-> [atk |-> 1050, crit |-> 200, critDmg |-> 200]],
   [id |-> ENEMY_ID, stats |-> [atk |-> 1000, crit |-> 200, critDmg |-> 200]]}

\* The modifier slots of the drawn instances: two stack groups on one target,
\* and the first of them on another target.
Slots ==
  {[studentId |-> STUDENT_A, stat |-> "atk", stackGroup |-> "field", kind |-> "buff", value |-> 30],
   [studentId |-> STUDENT_A, stat |-> "atk", stackGroup |-> "ns", kind |-> "buff", value |-> 15],
   [studentId |-> ENEMY_ID, stat |-> "atk", stackGroup |-> "field", kind |-> "buff", value |-> 30]}

Starts == {0, 1}
Ends == {1, 2}
Times == Starts \cup Ends

\* A BuffInstance.
Instance(id, slot, start, end) ==
  [id |-> id, studentId |-> slot.studentId, sourceStudentId |-> STUDENT_A,
   name |-> "effect", kind |-> slot.kind, stat |-> slot.stat, value |-> slot.value,
   start |-> start, end |-> end, stackGroup |-> slot.stackGroup,
   source |-> "ex", sourceId |-> "ex_student_a_1",
   sourceEventId |-> id, sourceBuffId |-> 1]

\* The instances the n-th place of a list may hold: a new one, whose id is n,
\* or one more copy of an instance already in the list (same id, same fields).
\* What the i-th place of a list may hold: a new instance, whose id is i, or
\* one more copy of the instance at an earlier place j (same id, same fields).
RawChoices(n) ==
  (Slots \X Starts \X Ends) \cup {<<j>> : j \in 1..(n - 1)}

RawListOf(n, f) ==
  LET list[i \in 0..n] ==
        IF i = 0 THEN <<>>
        ELSE IF Len(f[i]) = 1 THEN Append(list[i - 1], list[i - 1][f[i][1]])
        ELSE Append(list[i - 1], Instance(i, f[i][1], f[i][2], f[i][3]))
  IN list[n]

RawLists(n) ==
  {RawListOf(n, f) :
     f \in {g \in [1..n -> RawChoices(n)] : \A i \in 1..n : Len(g[i]) = 1 => g[i][1] < i}}

\* The orders one list can be given in.
Orders(s) ==
  {[i \in 1..Len(s) |-> s[p[i]]] : p \in Permutations(1..Len(s))}

NoLanes == [target |-> "", laneMap |-> <<>>, laneCount |-> 0]
NoStats == [on |-> "", target |-> "", time |-> 0, active |-> <<>>,
            totals |-> [atk |-> 0, crit |-> 0, critDmg |-> 0],
            computed |-> [atk |-> 0, crit |-> 0, critDmg |-> 0]]

Init ==
  /\ students = ModelStudents
  /\ events = <<>>
  /\ timelineSeconds = 2
  /\ timeStep = 1
  /\ drag = None
  /\ created = 0
  /\ nextStudentRef = 1
  /\ steps = 0
  /\ \E n \in 0..MaxRaw : raw \in RawLists(n)
  /\ resolved = <<>>
  /\ permuted = [input |-> <<>>, output |-> <<>>]
  /\ again = <<>>
  /\ lanes = NoLanes
  /\ stats = NoStats
  /\ pc = "raw"

\* App.buffInstances: applyOverwriteRules(raw).
Resolve ==
  /\ pc = "raw"
  /\ resolved' = applyOverwriteRules(raw)
  /\ raw' = InputAfterOverwrite(raw)
  /\ permuted' = [input |-> raw, output |-> resolved']
  /\ pc' = "resolved"
  /\ UNCHANGED <<editor, again, lanes, stats>>

\* applyOverwriteRules on the same instances given in another order.
ResolvePermuted ==
  /\ pc = "resolved"
  /\ \E p \in Orders(raw) :
       permuted' = [input |-> p, output |-> applyOverwriteRules(p)]
  /\ pc' = "permuted"
  /\ UNCHANGED <<editor, raw, resolved, again, lanes, stats>>

\* applyOverwriteRules on its own output.
ResolveAgain ==
  /\ pc \in {"resolved", "permuted"}
  /\ again' = applyOverwriteRules(permuted.output)
  /\ pc' = "again"
  /\ UNCHANGED <<editor, raw, resolved, permuted, lanes, stats>>

\* App.buffLanesByStudent, for one of [...students, enemy].
BuildLanes ==
  /\ pc = "resolved"
  /\ \E student \in StatTargets :
       lanes' = [target |-> student.id] @@
                buildBuffLanes(SelectSeq(resolved, LAMBDA item : item.studentId = student.id))
  /\ pc' = "lanes"
  /\ UNCHANGED <<editor, raw, resolved, permuted, again, stats>>

\* App.inspectStats: computeStatsAtTime(selectedTarget, inspectTime, buffInstances).
InspectStats ==
  /\ pc = "resolved"
  /\ \E target \in StatTargets, time \in Times :
       stats' = [on |-> "resolved", target |-> target.id, time |-> time] @@
                computeStatsAtTime(target, time, resolved)
  /\ pc' = "stats"
  /\ UNCHANGED <<editor, raw, resolved, permuted, again, lanes>>

\* computeStatsAtTime on instances that were not resolved first.
StatsOfRaw ==
  /\ pc = "raw"
  /\ \E target \in StatTargets, time \in Times :
       stats' = [on |-> "raw", target |-> target.id, time |-> time] @@
                computeStatsAtTime(target, time, raw)
  /\ pc' = "stats"
  /\ UNCHANGED <<editor, raw, resolved, permuted, again, lanes>>

Next == Resolve \/ ResolvePermuted \/ ResolveAgain \/ BuildLanes

Spec == Init /\ [][Next]_vars

(***************************************************************************)
(* The instance lists given to computeStatsAtTime                          *)
(***************************************************************************)

\* Effects as the editor lets them be defined: the three kinds, the three stats,
\* two stack groups, and two magnitudes within one slot.
StatEffects ==
  {[stat |-> "atk", stackGroup |-> "field", kind |-> "buff", value |-> 30],
   [stat |-> "atk", stackGroup |-> "field", kind |-> "buff", value |-> 20],
   [stat |-> "atk", stackGroup |-> "ns", kind |-> "buff", value |-> 15],
   [stat |-> "atk", stackGroup |-> "field", kind |-> "debuff", value |-> 12],
   [stat |-> "crit", stackGroup |-> "field", kind |-> "buff", value |-> 20],
   [stat |-> "critDmg", stackGroup |-> "field", kind |-> "debuff", value |-> 10],
   [stat |-> "atk", stackGroup |-> "field", kind |-> "attack", value |-> 50]}

StatSlots ==
  {[studentId |-> target.id] @@ effect : target \in StatTargets, effect \in StatEffects}

StatIntervals == {<<0, 1>>, <<0, 2>>, <<1, 2>>}

\* The instance lists of length n: the id of an instance is its place.
StatLists(n) ==
  {[i \in 1..n |-> Instance(i, f[i][1], f[i][2][1], f[i][2][2])] :
     f \in [1..n -> StatSlots \X StatIntervals]}

InitStats ==
  /\ students = ModelStudents
  /\ events = <<>>
  /\ timelineSeconds = 2
  /\ timeStep = 1
  /\ drag = None
  /\ created = 0
  /\ nextStudentRef = 1
  /\ steps = 0
  /\ \E n \in 0..MaxStack : raw \in StatLists(n)
  /\ resolved = <<>>
  /\ permuted = [input |-> <<>>, output |-> <<>>]
  /\ again = <<>>
  /\ lanes = NoLanes
  /\ stats = NoStats
  /\ pc = "raw"

NextStats == Resolve \/ InspectStats \/ StatsOfRaw

SpecStats == InitStats /\ [][NextStats]_vars

(***************************************************************************)
(* The editor states given to buildBuffInstances                           *)
(***************************************************************************)

\* What an event places, and on whom: an ex skill on its owner, an ns skill and
\* an ex skill on all students, a skill of a student who was removed, an ex
\* skill its owner does not have, and an ns skill that is not the owner's ns.
Placements ==
  {[studentId |-> STUDENT_A, skillType |-> "ex", skillId |-> "ex_student_a_1", target |-> "self"],
   [studentId |-> STUDENT_A, skillType |-> "ns", skillId |-> "ns_student_a", target |-> "all"],
   [studentId |-> STUDENT_B, skillType |-> "ex", skillId |-> "ex_student_b_1", target |-> "all"],
   [studentId |-> "s.removed", skillType |-> "ex", skillId |-> "ex_student_a_1", target |-> "self"],
   [studentId |-> STUDENT_B, skillType |-> "ex", skillId |-> "ex_student_a_1", target |-> "self"],
   [studentId |-> STUDENT_B, skillType |-> "ns", skillId |-> "ex_student_b_1", target |-> "all"]}

EventStarts == {0, 1, 3}
EventDurations == {None, Some(0), Some(2)}
TimelineChoices == {2, 3}
StepChoices == {1, 2}

\* An ExEvent.
Event(id, placement, start, duration) ==
  [id |-> id, studentId |-> placement.studentId, skillType |-> placement.skillType,
   skillId |-> placement.skillId, start |-> start, duration |-> duration,
   target |-> placement.target, targetStudentIds |-> None, buffTargets |-> <<>>]

\* The event lists of length n: the id of an event is its place.
EventLists(n) ==
  {[i \in 1..n |-> Event(i, f[i][1], f[i][2], f[i][3])] :
     f \in [1..n -> Placements \X EventStarts \X EventDurations]}

InitBuild ==
  /\ students = ModelStudents
  /\ \E n \in 0..MaxEvents : events \in EventLists(n)
  /\ timelineSeconds \in TimelineChoices
  /\ timeStep \in StepChoices
  /\ drag = None
  /\ created = 0
  /\ nextStudentRef = 1
  /\ steps = 0
  /\ raw = <<>>
  /\ resolved = <<>>
  /\ permuted = [input |-> <<>>, output |-> <<>>]
  /\ again = <<>>
  /\ lanes = NoLanes
  /\ stats = NoStats
  /\ pc = "edit"

\* App.buffInstances: applyOverwriteRules(buildBuffInstances(...)).
Recompute ==
  /\ pc = "edit"
  /\ raw' = buildBuffInstances(students, events, <<>>, <<>>, timelineSeconds, timeStep)
  /\ resolved' = applyOverwriteRules(raw')
  /\ permuted' = [input |-> raw', output |-> resolved']
  /\ pc' = "resolved"
  /\ UNCHANGED <<editor, again, lanes, stats>>

NextBuild == Recompute

SpecBuild == InitBuild /\ [][NextBuild]_vars

(***************************************************************************)
(* Claims about the pipeline, under SpecBuild                              *)
(***************************************************************************)

\* C4: whatever the students, events, timelineSeconds and timeStep, every
\* instance of applyOverwriteRules(buildBuffInstances(...)) has
\* end <= timelineSeconds and end > start.
C4_ResolvedClipped ==
  pc = "resolved" =>
    \A i \in 1..Len(resolved) :
      resolved[i].end <= timelineSeconds /\ resolved[i].end > resolved[i].start

\* C4 witness: one event starts beyond the timeline, so that its raw instances
\* end before they start and none of them is returned, and one event runs over
\* the end of the timeline and its instance is returned clipped.
C4_Witness ==
  /\ pc = "resolved"
  /\ \E i \in 1..Len(raw) :
       raw[i].end < raw[i].start /\ \A j \in 1..Len(resolved) : resolved[j].id # raw[i].id
  /\ \E e \in Range(events), j \in 1..Len(resolved) :
       /\ resolved[j].sourceEventId = e.id
       /\ e.duration # None /\ e.start + e.duration[1] > timelineSeconds
       /\ resolved[j].end = timelineSeconds

\* The event references a student who is not among the students, or a skill
\* its owner does not have: no ex skill of that id for an ex event, an ns skill
\* of another id, or none, for an ns event.
Dangling(event) ==
  ~ \E i \in 1..Len(students) :
      /\ students[i].id = event.studentId
      /\ IF event.skillType = "ex"
         THEN \E k \in 1..Len(students[i].ex) : students[i].ex[k].id = event.skillId
         ELSE students[i].ns # None /\ students[i].ns[1].id = event.skillId

\* C16: a cast event whose owner is not among the students, or whose skill
\* does not exist on the owner, contributes no instance, and the instances of
\* the other events are what they are when that event is absent from the list.
C16_DanglingEventsSkipped ==
  pc = "resolved" =>
    /\ \A e \in 1..Len(events) :
         Dangling(events[e]) =>
           \A i \in 1..Len(raw) : raw[i].sourceEventId # events[e].id
    /\ raw = buildBuffInstances(
               students, SelectSeq(events, LAMBDA event : ~Dangling(event)),
               <<>>, <<>>, timelineSeconds, timeStep)

\* C16 witness: an event of a removed student comes before an event that
\* places an existing skill, and only the latter has instances.
C16_Witness ==
  /\ pc = "resolved"
  /\ Len(events) = 2
  /\ events[1].studentId = "s.removed"
  /\ ~Dangling(events[2])
  /\ raw # <<>>
  /\ \A i \in 1..Len(raw) : raw[i].sourceEventId = events[2].id

\* The effect definitions of all the skills of the students.
AllBuffs ==
  UNION {Range(IF students[i].ns = None THEN <<>> ELSE students[i].ns[1].buffs)
           \cup UNION {Range(students[i].ex[k].buffs) : k \in 1..Len(students[i].ex)} :
         i \in 1..Len(students)}

\* The duration of an instance by the duration policy.
PolicyDuration(event, buff) ==
  IF buff.kind = Some("attack")
  THEN (IF buff.duration # None /\ buff.duration[1] > timeStep
        THEN buff.duration[1] ELSE timeStep)
  ELSE IF event.duration # None THEN event.duration[1]
  ELSE IF buff.duration # None THEN buff.duration[1]
  ELSE timeStep

\* C17: each emitted instance has start = event start and
\* end = min(start + d, timelineSeconds), where d = max(timeStep, definition
\* duration) for an attack, whatever the cast event's duration, and for a buff
\* or debuff d = the cast event's duration, the definition's duration when the
\* event has none, and one timeStep when both are absent.
C17_InstanceInterval ==
  pc = "resolved" =>
    \A i \in 1..Len(raw) :
      \E e \in 1..Len(events), buff \in AllBuffs :
        /\ raw[i].sourceEventId = events[e].id
        /\ raw[i].sourceBuffId = buff.id
        /\ raw[i].start = events[e].start
        /\ LET d == PolicyDuration(events[e], buff)
           IN raw[i].end = (IF events[e].start + d <= timelineSeconds
                            THEN events[e].start + d ELSE timelineSeconds)

\* C17 witness: one cast whose duration is 0 emits an attack lasting its
\* definition's duration 2, longer than the timeStep, a buff lasting 0, and a
\* debuff that has no duration of its own lasting 0 too; another cast without
\* a duration emits that debuff lasting one timeStep.
C17_Witness ==
  /\ pc = "resolved"
  /\ timeStep = 1
  /\ drag = None
  /\ created = 0
  /\ nextStudentRef = 1
  /\ steps = 0
  /\ \E e, f \in 1..Len(events), i, j, k, l \in 1..Len(raw) :
       /\ events[e].duration = Some(0)
       /\ events[f].duration = None
       /\ raw[i].sourceEventId = events[e].id /\ raw[i].sourceBuffId = 8
       /\ raw[i].kind = "attack" /\ raw[i].end = raw[i].start + 2
       /\ raw[j].sourceEventId = events[e].id /\ raw[j].sourceBuffId = 5
       /\ raw[j].end = raw[j].start
       /\ raw[k].sourceEventId = events[e].id /\ raw[k].sourceBuffId = 7
       /\ raw[k].end = raw[k].start
       /\ raw[l].sourceEventId = events[f].id /\ raw[l].sourceBuffId = 7
       /\ raw[l].end = raw[l].start + 1

\* C18: buildBuffInstances never emits an instance whose end <= start,
\* whatever the event start and duration and the definition duration: an
\* instance whose clipped interval is empty or inverted is omitted.
C18_NoEmptyInstanceEmitted ==
  pc = "resolved" =>
    \A i \in 1..Len(raw) : raw[i].end > raw[i].start

(***************************************************************************)
(* Claims about applyOverwriteRules and buildBuffLanes, under Spec         *)
(***************************************************************************)

\* Two closed-open intervals [start, end) share an instant.
Overlap(a, b) == Max(a.start, b.start) < Min(a.end, b.end)

\* The instances of `instances` live at time t in the slot `key`.
LiveAt(instances, key, t) ==
  {i \in 1..Len(instances) :
     /\ SlotKey(instances[i]) = key
     /\ instances[i].start <= t /\ t < instances[i].end}

\* Within every slot the instances do not overlap and appear in ascending start
\* order, and no instant has two live instances of one slot.
SlotsDisjoint(out) ==
  /\ \A i, j \in 1..Len(out) :
       (i < j /\ SlotKey(out[i]) = SlotKey(out[j]))
         => (out[i].start < out[j].start /\ ~Overlap(out[i], out[j]))
  /\ \A i \in 1..Len(out), t \in Times :
       Cardinality(LiveAt(out, SlotKey(out[i]), t)) <= 1

\* C1: whatever raw instances applyOverwriteRules is given, in whatever order,
\* the returned instances of one slot (target, stat, stack group, kind) are
\* pairwise non-overlapping as [start, end) and in ascending start order, so at
\* most one instance per slot is live at any instant.
C1_SlotsNonOverlapping ==
  pc # "raw" => SlotsDisjoint(resolved) /\ SlotsDisjoint(permuted.output)

\* C1 witness: three raw instances of one slot, given in another order than
\* drawn, of which one was trimmed and one dropped.
C1_Witness ==
  /\ pc = "permuted"
  /\ permuted.input # raw
  /\ Len(raw) = 3
  /\ \A i \in 1..3 : SlotKey(raw[i]) = SlotKey(raw[1])
  /\ Len(permuted.output) = 2
  /\ \E i \in 1..2 : permuted.output[i] \notin Range(raw)

\* The returned instances as the claim compares them: id, start and end.
Intervals(out) == {<<out[i].id, out[i].start, out[i].end>> : i \in 1..Len(out)}

\* C2: applyOverwriteRules returns the same set of (id, start, end) for every
\* order in which the same raw instances are given.
C2_PermutationInvariant ==
  pc = "permuted" => Intervals(permuted.output) = Intervals(resolved)

\* C2 witness: two instances of one slot start together, so only the id breaks the
\* tie, and they were given in both orders.
C2_Witness ==
  /\ pc = "permuted"
  /\ Len(raw) >= 2
  /\ SlotKey(raw[1]) = SlotKey(raw[2])
  /\ raw[1].start = raw[2].start /\ raw[1].id # raw[2].id
  /\ raw[1].end # raw[2].end
  /\ permuted.input[1] = raw[2] /\ permuted.input[2] = raw[1]
  /\ Len(resolved) >= 1

\* C3: applyOverwriteRules applied to its own output returns the same set of
\* instances, with the same intervals.
C3_Idempotent ==
  pc = "again" => Range(again) = Range(permuted.output)

\* C3 witness: the first application trimmed and dropped instances, and the second
\* was applied to what it returned.
C3_Witness ==
  /\ pc = "again"
  /\ Len(permuted.input) = 3
  /\ Len(permuted.output) = 2
  /\ \E i \in 1..2 : permuted.output[i] \notin Range(permuted.input)
  /\ Len(again) = 2

\* The resolved instances of the target whose lanes were built.
LaneInput == SelectSeq(resolved, LAMBDA item : item.studentId = lanes.target)

\* C5: buildBuffLanes maps every instance it is given to a lane 0, 1, 2, ..., and
\* two instances of one lane never overlap.
C5_LanesDisjoint ==
  pc = "lanes" =>
    /\ \A i \in 1..Len(LaneInput) :
         /\ LaneInput[i].id \in DOMAIN lanes.laneMap
         /\ lanes.laneMap[LaneInput[i].id] \in Nat
    /\ \A i, j \in 1..Len(LaneInput) :
         (i # j /\ lanes.laneMap[LaneInput[i].id] = lanes.laneMap[LaneInput[j].id])
           => ~Overlap(LaneInput[i], LaneInput[j])

\* C5 witness: a lane was reused by a later instance while another lane was open.
C5_Witness ==
  /\ pc = "lanes"
  /\ lanes.laneCount = 2
  /\ \E i, j \in 1..Len(LaneInput) :
       i # j /\ lanes.laneMap[LaneInput[i].id] = lanes.laneMap[LaneInput[j].id]

\* The largest number of the instances active at one instant (0 when there are none).
MaxActive(buffs) ==
  LET count(t) == Cardinality({i \in 1..Len(buffs) :
                     buffs[i].start <= t /\ t < buffs[i].end})
      counts == {count(t) : t \in Times}
  IN CHOOSE n \in counts : \A m \in counts : m <= n

\* C6 as claimed: laneCount equals the largest number of the target's resolved
\* instances active at one instant.
C6_LaneCountIsMaxActive ==
  pc = "lanes" => lanes.laneCount = MaxActive(LaneInput)

\* C6 as amended: laneCount equals that number, except that it is 1 when the
\* target has no resolved instance.
C6_LaneCountIsMaxActiveOrOne ==
  pc = "lanes" => lanes.laneCount = Max(1, MaxActive(LaneInput))

\* C6 witness: two instances of the target are active at one instant, and two
\* lanes were counted.
C6_Witness ==
  /\ pc = "lanes"
  /\ Len(LaneInput) = 3
  /\ MaxActive(LaneInput) = 2
  /\ lanes.laneCount = 2

(***************************************************************************)
(* Claims about computeStatsAtTime, under SpecStats                        *)
(***************************************************************************)

\* The instance list the last query was made on, and the actor it named.
Queried == IF stats.on = "raw" THEN raw ELSE resolved
QueryTarget == CHOOSE target \in StatTargets : target.id = stats.target

\* C7: the active set of computeStatsAtTime(target, t, instances) is exactly the
\* instances of the target with start <= t < end: an instance is active at
\* t = start and is not active at t = end.
C7_ActiveIsClosedOpen ==
  pc = "stats" =>
    /\ Range(stats.active) =
         {b \in Range(Queried) :
            b.studentId = stats.target /\ b.start <= stats.time /\ stats.time < b.end}
    /\ \A b \in Range(Queried) :
         /\ (b.studentId = stats.target /\ stats.time = b.start /\ b.start < b.end)
              => b \in Range(stats.active)
         /\ stats.time = b.end => b \notin Range(stats.active)
         /\ b.studentId # stats.target => b \notin Range(stats.active)

\* C7 witness: a query at an instant where one instance of the target starts and
\* another ends.
C7_Witness ==
  /\ pc = "stats"
  /\ \E a, b \in Range(Queried) :
       /\ a.studentId = stats.target /\ b.studentId = stats.target
       /\ a.end = stats.time /\ b.start = stats.time
       /\ a \notin Range(stats.active) /\ b \in Range(stats.active)

RECURSIVE SumOver(_, _)
\* The sum of f[x] over the finite set S.
SumOver(S, f) ==
  IF S = {} THEN 0
  ELSE LET x == CHOOSE y \in S : TRUE IN f[x] + SumOver(S \ {x}, f)

\* The active instances that count: per (stat, stack group, kind) the one with
\* the latest start, the first in the list among equals.
KeptOf(active) ==
  {i \in 1..Len(active) :
     \A j \in 1..Len(active) :
       StackKey(active[j]) = StackKey(active[i])
         => \/ active[j].start < active[i].start
            \/ (active[j].start = active[i].start /\ i <= j)}

\* The total of one stat: + value of the kept buffs, - value of the kept debuffs.
ExpectedTotal(active, stat) ==
  SumOver({i \in KeptOf(active) : active[i].stat = stat /\ active[i].kind # "attack"},
          [i \in 1..Len(active) |->
             IF active[i].kind = "debuff" THEN 0 - active[i].value ELSE active[i].value])

\* C8: per (stat, stack group, kind) computeStatsAtTime counts only the active
\* instance with the latest start; a stat's total is the sum of the kept buffs'
\* values minus the kept debuffs' values, attacks add nothing, and each of atk,
\* crit and critDmg is its own base stat times (1 + its own total).
C8_TotalsAndComputed ==
  pc = "stats" =>
    \A stat \in {"atk", "crit", "critDmg"} :
      /\ stats.totals[stat] = ExpectedTotal(stats.active, stat)
      /\ stats.computed[stat] = QueryTarget.stats[stat] * (100 + stats.totals[stat])

\* C8 witness: of two active instances of one (stat, stack group, kind) the later
\* was kept and the earlier was not counted.
C8_Witness ==
  /\ pc = "stats"
  /\ stats.on = "raw"
  /\ Len(stats.active) = 2
  /\ StackKey(stats.active[1]) = StackKey(stats.active[2])
  /\ stats.active[1].kind = "buff"
  /\ stats.active[1].start < stats.active[2].start
  /\ stats.active[1].value # stats.active[2].value
  /\ stats.totals[stats.active[1].stat] = stats.active[2].value

\* Raw instances i and j are buffs of the queried target in one slot, j starts
\* strictly later, and both cover the query time.
LaterOverlaps(i, j) ==
  /\ raw[i].studentId = stats.target /\ raw[i].kind = "buff"
  /\ SlotKey(raw[i]) = SlotKey(raw[j])
  /\ raw[i].start < raw[j].start
  /\ raw[j].start <= stats.time
  /\ stats.time < raw[i].end /\ stats.time < raw[j].end

\* No other raw instance than i and j is on the stat of i for the queried target.
OnlyOnStat(i, j) ==
  \A k \in 1..Len(raw) :
    (k \notin {i, j} /\ raw[k].studentId = stats.target) => raw[k].stat # raw[i].stat

\* C9: when two buffs on one target, stat and stack group overlap at the query
\* time and one starts strictly later, applyOverwriteRules followed by
\* computeStatsAtTime counts the later one alone: the earlier is not active, and
\* with nothing else on that stat the total is the later magnitude; base atk 1000
\* with 0.30 (earlier) and 0.20 (later) gives atk 1200.
C9_LaterBuffAlone ==
  (pc = "stats" /\ stats.on = "resolved") =>
    \A i, j \in 1..Len(raw) :
      LaterOverlaps(i, j) =>
        /\ \A b \in Range(stats.active) : b.id # raw[i].id
        /\ OnlyOnStat(i, j) =>
             /\ stats.totals[raw[i].stat] = raw[j].value
             /\ stats.computed[raw[i].stat] =
                  QueryTarget.stats[raw[i].stat] * (100 + raw[j].value)
             /\ (/\ raw[i].stat = "atk" /\ QueryTarget.stats.atk = 1000
                 /\ raw[i].value = 30 /\ raw[j].value = 20)
                  => stats.computed.atk = 120000

\* C9 witness: the example of the claim, queried through the whole pipeline.
C9_Witness ==
  /\ pc = "stats" /\ stats.on = "resolved"
  /\ QueryTarget.stats.atk = 1000
  /\ \E i, j \in 1..Len(raw) :
       /\ LaterOverlaps(i, j) /\ OnlyOnStat(i, j)
       /\ raw[i].stat = "atk" /\ raw[i].stackGroup = "field"
       /\ raw[i].value = 30 /\ raw[j].value = 20
  /\ stats.computed.atk = 120000

\* The instances of `instances` in the slot `key`, in order.
OfSlot(instances, key) == SelectSeq(instances, LAMBDA b : SlotKey(b) = key)

\* Raw instances i and j are buffs of the queried target on one stat, in
\* different stack groups, and both cover the query time.
CoexistAt(i, j) ==
  /\ raw[i].studentId = stats.target /\ raw[j].studentId = stats.target
  /\ raw[i].kind = "buff" /\ raw[j].kind = "buff"
  /\ raw[i].stat = raw[j].stat
  /\ raw[i].stackGroup # raw[j].stackGroup
  /\ raw[i].start <= stats.time /\ stats.time < raw[i].end
  /\ raw[j].start <= stats.time /\ stats.time < raw[j].end

\* C10: instances on one target and stat in different stack groups never trim
\* each other (what applyOverwriteRules returns for a slot is what it returns
\* for that slot's instances alone, and two such instances keep their raw
\* intervals), and when both are active at the query time both magnitudes are
\* summed: 0.30 and 0.15 give atk = base * 1.45.
C10_StackGroupsCoexist ==
  /\ (pc = "resolved" \/ (pc = "stats" /\ stats.on = "resolved")) =>
       \A k \in 1..Len(raw) :
         OfSlot(resolved, SlotKey(raw[k])) =
           applyOverwriteRules(OfSlot(raw, SlotKey(raw[k])))
  /\ (pc = "stats" /\ stats.on = "resolved") =>
       \A i, j \in 1..Len(raw) :
         (CoexistAt(i, j) /\ OnlyOnStat(i, j)) =>
           /\ raw[i] \in Range(resolved) /\ raw[j] \in Range(resolved)
           /\ stats.totals[raw[i].stat] = raw[i].value + raw[j].value
           /\ stats.computed[raw[i].stat] =
                QueryTarget.stats[raw[i].stat] * (100 + raw[i].value + raw[j].value)
           /\ (raw[i].stat = "atk" /\ raw[i].value = 30 /\ raw[j].value = 15)
                => stats.computed.atk = QueryTarget.stats.atk * 145

\* C10 witness: the example of the claim: field 0.30 and ns 0.15 on atk, the one
\* starting inside the other, both active at the query time.
C10_Witness ==
  /\ pc = "stats" /\ stats.on = "resolved"
  /\ \E i, j \in 1..Len(raw) :
       /\ CoexistAt(i, j) /\ OnlyOnStat(i, j)
       /\ raw[i].stat = "atk" /\ raw[i].start < raw[j].start
       /\ raw[i].stackGroup = "field" /\ raw[i].value = 30
       /\ raw[j].stackGroup = "ns" /\ raw[j].value = 15
  /\ stats.computed.atk = QueryTarget.stats.atk * 145


(***************************************************************************)
(* The target settings given to buildBuffInstances                         *)
(***************************************************************************)

TargetModes == {"self", "all", "student", "enemy"}

\* The ids an explicit list names: another student, and a student who is not
\* (or no longer) among the students.
ListedIds == {STUDENT_B, "s.removed"}

\* targetStudentIds: absent, or a list of up to MaxIds ids, repeats included.
IdLists ==
  {None} \cup UNION {{Some(list) : list \in [1..n -> ListedIds]} : n \in 0..MaxIds}

\* The students, the first effect of the first student's ex skill having the
\* given target mode (or none) and target id list.
TargetStudents(target, ids) ==
  [ModelStudents EXCEPT ![1].ex[1].buffs[1].target = target,
                        ![1].ex[1].buffs[1].targetStudentIds = ids]

\* One cast of that skill by its owner, with the given event-level target mode
\* and id list and the given per-effect overrides.
TargetEvent(target, ids, buffTargets) ==
  [id |-> 1, studentId |-> STUDENT_A, skillType |-> "ex", skillId |-> "ex_student_a_1",
   start |-> 0, duration |-> Some(1),
   target |-> target, targetStudentIds |-> ids, buffTargets |-> buffTargets]

InitTargets ==
  /\ \E buffTarget \in {None} \cup {Some(mode) : mode \in TargetModes}, buffIds \in IdLists :
       students = TargetStudents(buffTarget, buffIds)
  /\ \E target \in TargetModes, ids \in IdLists :
       \/ events = <<TargetEvent(target, ids, <<>>)>>
       \/ \E mode \in TargetModes, overrideIds \in IdLists :
            events = <<TargetEvent(target, ids,
                         (2 :> [target |-> mode, targetStudentIds |-> overrideIds]))>>
  /\ timelineSeconds = 2
  /\ timeStep = 1
  /\ drag = None
  /\ created = 0
  /\ nextStudentRef = 1
  /\ steps = 0
  /\ raw = <<>>
  /\ resolved = <<>>
  /\ permuted = [input |-> <<>>, output |-> <<>>]
  /\ again = <<>>
  /\ lanes = NoLanes
  /\ stats = NoStats
  /\ pc = "edit"

NextTargets == Recompute

SpecTargets == InitTargets /\ [][NextTargets]_vars

(***************************************************************************)
(* Claims about target resolution, under SpecTargets                       *)
(***************************************************************************)

\* The effects of the skill the cast event places.
CastBuffs == students[1].ex[1].buffs

\* The target ids of the instances emitted for one effect of one event, in
\* the order they were emitted.
EmittedTargets(event, buff) ==
  LET emitted == SelectSeq(raw, LAMBDA inst :
                     inst.sourceEventId = event.id /\ inst.sourceBuffId = buff.id)
  IN [i \in 1..Len(emitted) |-> emitted[i].studentId]

\* The override of an event for an effect, if there is one.
OverrideFor(event, buff) ==
  IF buff.id \in DOMAIN event.buffTargets THEN Some(event.buffTargets[buff.id]) ELSE None

\* The target mode by precedence: override, then effect definition, then event.
ResolvedMode(event, buff) ==
  IF OverrideFor(event, buff) # None THEN OverrideFor(event, buff)[1].target
  ELSE IF buff.target # None THEN buff.target[1]
  ELSE event.target

\* The lists of ids an effect of an event could take its targets from.
NamedIds(event, buff) ==
  (IF OverrideFor(event, buff) = None THEN {}
   ELSE {OverrideFor(event, buff)[1].targetStudentIds})
  \cup {buff.targetStudentIds, event.targetStudentIds}

\* C11: when the resolved target mode of an effect is enemy, exactly one
\* instance is emitted for it per event, and it targets the enemy id, whatever
\* the id lists of the event, the effect definition and the override hold.
C11_EnemyModeTargetsEnemyOnly ==
  pc = "resolved" =>
    \A e \in 1..Len(events), b \in 1..Len(CastBuffs) :
      ResolvedMode(events[e], CastBuffs[b]) = "enemy" =>
        EmittedTargets(events[e], CastBuffs[b]) = <<ENEMY_ID>>

\* C11 witness: the mode is enemy by the override while the event, the effect
\* definition and the override each name students in a list of ids.
C11_Witness ==
  /\ pc = "resolved"
  /\ \E e \in 1..Len(events), b \in 1..Len(CastBuffs) :
       /\ ResolvedMode(events[e], CastBuffs[b]) = "enemy"
       /\ OverrideFor(events[e], CastBuffs[b]) # None
       /\ \A ids \in NamedIds(events[e], CastBuffs[b]) : HasLength(ids)
       /\ EmittedTargets(events[e], CastBuffs[b]) = <<ENEMY_ID>>


\* C12: the target mode used for an effect is the override's mode when the
\* event has an override for that effect id, otherwise the effect definition's
\* own mode when it has one, otherwise the cast event's mode.
C12_TargetModePrecedence ==
  \A e \in 1..Len(events), b \in 1..Len(CastBuffs) :
    TargetModeOf(events[e], CastBuffs[b]) =
      (IF CastBuffs[b].id \in DOMAIN events[e].buffTargets
       THEN events[e].buffTargets[CastBuffs[b].id].target
       ELSE IF CastBuffs[b].target # None THEN CastBuffs[b].target[1]
       ELSE events[e].target)

\* C12 witness: the three levels give three different modes and the override's
\* is used for the overridden effect, and the event's for the effect that has
\* neither an override nor a mode of its own.
C12_Witness ==
  /\ pc = "resolved"
  /\ \E e \in 1..Len(events), b, c \in 1..Len(CastBuffs) :
       /\ CastBuffs[b].id \in DOMAIN events[e].buffTargets
       /\ CastBuffs[b].target # None
       /\ events[e].buffTargets[CastBuffs[b].id].target = "all"
       /\ CastBuffs[b].target[1] = "enemy"
       /\ events[e].target = "self"
       /\ TargetModeOf(events[e], CastBuffs[b]) = "all"
       /\ EmittedTargets(events[e], CastBuffs[b]) = <<STUDENT_A, STUDENT_B>>
       /\ CastBuffs[c].id \notin DOMAIN events[e].buffTargets
       /\ CastBuffs[c].target = None
       /\ TargetModeOf(events[e], CastBuffs[c]) = "self"
       /\ EmittedTargets(events[e], CastBuffs[c]) = <<STUDENT_A>>


\* The ids of the valid universe: the current students and the enemy.
ValidIds == {students[i].id : i \in 1..Len(students)} \cup {ENEMY_ID}

\* The ids of a list that are in the valid universe, the owner when none is.
ValidOrOwner(event, ids) ==
  LET valid == SelectSeq(ids, LAMBDA id : id \in ValidIds)
  IN IF valid # <<>> THEN valid ELSE <<event.studentId>>

\* The first non-empty list among the override's ids, the effect definition's
\* ids and the cast event's ids, and the owner alone when all three are empty.
FirstNamedIds(event, buff) ==
  LET override == OverrideFor(event, buff)
  IN IF override # None /\ HasLength(override[1].targetStudentIds)
     THEN override[1].targetStudentIds[1]
     ELSE IF HasLength(buff.targetStudentIds) THEN buff.targetStudentIds[1]
     ELSE IF HasLength(event.targetStudentIds) THEN event.targetStudentIds[1]
     ELSE <<event.studentId>>

\* C13: in target mode student the raw target ids are the first non-empty list
\* in the order override ids, effect-definition ids, cast-event ids, and the
\* owner alone only when all of those lists are empty.
C13_StudentModeFallbackChain ==
  pc = "resolved" =>
    \A e \in 1..Len(events), b \in 1..Len(CastBuffs) :
      ResolvedMode(events[e], CastBuffs[b]) = "student" =>
        /\ RawTargets(events[e], CastBuffs[b], "student", <<STUDENT_A, STUDENT_B>>)
             = FirstNamedIds(events[e], CastBuffs[b])
        /\ EmittedTargets(events[e], CastBuffs[b])
             = ValidOrOwner(events[e], FirstNamedIds(events[e], CastBuffs[b]))


\* The ids named by the id lists of the override, the effect definition and
\* the cast event.
AllNamedIds(event, buff) ==
  UNION {IF ids = None THEN {} ELSE Range(ids[1]) : ids \in NamedIds(event, buff)}

\* C14: every emitted instance targets a current student or the enemy; ids
\* outside are filtered out; mode self yields only the owner; mode all yields
\* every student and never the enemy; when filtering leaves no id the effect
\* targets the owner.
C14_TargetsInValidUniverse ==
  pc = "resolved" =>
    /\ \A i \in 1..Len(raw) : raw[i].studentId \in ValidIds
    /\ \A e \in 1..Len(events), b \in 1..Len(CastBuffs) :
         LET mode == ResolvedMode(events[e], CastBuffs[b])
             emitted == EmittedTargets(events[e], CastBuffs[b])
         IN /\ mode = "self" => emitted = <<events[e].studentId>>
            /\ mode = "all" =>
                 /\ Range(emitted) = {students[i].id : i \in 1..Len(students)}
                 /\ ENEMY_ID \notin Range(emitted)
            /\ mode = "student" =>
                 /\ Range(emitted) \subseteq
                      (AllNamedIds(events[e], CastBuffs[b]) \cap ValidIds)
                        \cup {events[e].studentId}
                 /\ AllNamedIds(events[e], CastBuffs[b]) \cap ValidIds = {}
                      => emitted = <<events[e].studentId>>

\* C14 witness: in mode student the list in use names a student who is not
\* among the students and one who is, and only the latter is targeted.
C14_Witness ==
  /\ pc = "resolved"
  /\ \E e \in 1..Len(events), b \in 1..Len(CastBuffs) :
       /\ ResolvedMode(events[e], CastBuffs[b]) = "student"
       /\ OverrideFor(events[e], CastBuffs[b]) # None
       /\ OverrideFor(events[e], CastBuffs[b])[1].targetStudentIds
            = Some(<<"s.removed", STUDENT_B>>)
       /\ EmittedTargets(events[e], CastBuffs[b]) = <<STUDENT_B>>


\* C15: the target list resolved for one event and one effect definition is
\* deduplicated: no two emitted instances have the same event, effect and
\* target id, even when an explicit id list names one actor more than once.
C15_TargetsDeduplicated ==
  pc = "resolved" =>
    \A i, j \in 1..Len(raw) :
      (/\ raw[i].sourceEventId = raw[j].sourceEventId
       /\ raw[i].sourceBuffId = raw[j].sourceBuffId
       /\ raw[i].studentId = raw[j].studentId) => i = j


(***************************************************************************)
(* The editor: App's handlers on students, events, timelineSeconds and     *)
(* timeStep.  Times are in hundredths of a second; a pointer position is   *)
(* the ratio of its offset to the width of the track, in halves.           *)
(***************************************************************************)

\* 60 s
DEFAULT_TIMELINE_SECONDS == 6000
\* 0.1 s
DEFAULT_TIME_STEP == 10
\* 1 s
DEFAULT_EX_EVENT_DURATION == 100
\* updateTimelineSeconds: clamp(..., 10, 600)
TIMELINE_MIN == 1000
TIMELINE_MAX == 60000
\* updateTimeStep: clamp(..., 0.05, 1)
TIME_STEP_MIN == 5
TIME_STEP_MAX == 100

\* Most handler calls after App is mounted.
MaxSteps == 3

clamp(value, min, max) == Max(min, Min(max, value))

\* Math.round(a / b) for b > 0: halves go up.
Round(a, b) == (2 * a + b) \div (2 * b)

\* ratio * seconds, for a ratio given in halves.
AtRatio(halves, seconds) == (halves * seconds) \div 2

Ratios == {0, 1, 2}

getSkillDuration(buffs, fallback) ==
  LET max[i \in 0..Len(buffs)] ==
        IF i = 0 THEN 0 ELSE Max(max[i - 1], OrElse(buffs[i].duration, 0))
  IN IF max[Len(buffs)] > 0 THEN max[Len(buffs)] ELSE fallback

\* defaultStudents, with durations in hundredths of a second.
defaultStudents ==
  <<[id |-> STUDENT_A,
     stats |-> [atk |-> 1050, crit |-> 200, critDmg |-> 200],
     ns |-> Some([id |-> "ns_student_a",
                  buffs |-> <<Buff(1, Some("buff"), "atk", 15, Some(1000), "ns", None)>>]),
     ex |-> <<[id |-> "ex_student_a_1",
               buffs |-> <<Buff(2, Some("buff"), "atk", 30, Some(600), "field", None),
                           Buff(3, Some("buff"), "crit", 20, Some(600), "field", None)>>]>>],
    [id |-> STUDENT_B,
     stats |-> [atk |-> 820, crit |-> 150, critDmg |-> 175],
     ns |-> Some([id |-> "ns_student_b",
                  buffs |-> <<Buff(4, Some("buff"), "atk", 12, Some(1200), "ns", None)>>]),
     ex |-> <<[id |-> "ex_student_b_1",
               buffs |-> <<Buff(5, Some("buff"), "atk", 20, Some(800), "field", None)>>]>>]>>

\* `s.custom_${n}`
CustomId(n) == "s.custom_" \o ToString(n)

\* `ns_${id}`
CustomNsId(n) == "ns_" \o CustomId(n)

\* `ex_${id}_1`
CustomExId(n) == "ex_" \o CustomId(n) \o "_1"

\* The student addStudent makes: an ns and one ex skill, both without effects.
NewStudent(n) ==
  [id |-> CustomId(n),
   stats |-> [atk |-> 1000, crit |-> 200, critDmg |-> 200],
   ns |-> Some([id |-> CustomNsId(n), buffs |-> <<>>]),
   ex |-> <<[id |-> CustomExId(n), buffs |-> <<>>]>>]

\* What handleDragStart puts in the payload: a skill button of a student.
Payloads ==
  UNION {{[studentId |-> students[i].id, skillType |-> "ex", skillId |-> students[i].ex[k].id] :
            k \in 1..Len(students[i].ex)}
         \cup (IF students[i].ns = None THEN {}
               ELSE {[studentId |-> students[i].id, skillType |-> "ns",
                      skillId |-> students[i].ns[1].id]}) :
         i \in 1..Len(students)}

StudentIds == {students[i].id : i \in 1..Len(students)}
EventIds == {events[i].id : i \in 1..Len(events)}

InitEditor ==
  /\ students = defaultStudents
  /\ events = <<>>
  /\ timelineSeconds = DEFAULT_TIMELINE_SECONDS
  /\ timeStep = DEFAULT_TIME_STEP
  /\ drag = None
  /\ created = 0
  /\ nextStudentRef = 1
  /\ steps = 0
  /\ raw = <<>>
  /\ resolved = <<>>
  /\ permuted = [input |-> <<>>, output |-> <<>>]
  /\ again = <<>>
  /\ lanes = NoLanes
  /\ stats = NoStats
  /\ pc = "mount"

engine == <<raw, resolved, permuted, again, lanes, stats>>

\* handleDrop(event, studentId): a skill button is dropped on a student's track.
handleDrop ==
  /\ pc = "ready"
  /\ steps < MaxSteps
  /\ steps' = steps + 1
  /\ \E studentId \in StudentIds, parsed \in Payloads, ratio \in Ratios :
       LET time == Round(AtRatio(ratio, timelineSeconds), timeStep) * timeStep
           student == FindStudent(students, studentId)
           skill == FindSkill(student[1], parsed.skillType, parsed.skillId)
       IN /\ student # None
          /\ skill # None
          /\ events' = Append(events,
               [id |-> created + 1, studentId |-> studentId,
                skillType |-> parsed.skillType, skillId |-> parsed.skillId,
                start |-> time,
                duration |-> Some(getSkillDuration(skill[1].buffs,
                                    Max(timeStep, DEFAULT_EX_EVENT_DURATION))),
                target |-> "self", targetStudentIds |-> Some(<<studentId>>),
                buffTargets |-> <<>>])
          /\ created' = created + 1
  /\ UNCHANGED <<students, timelineSeconds, timeStep, drag, nextStudentRef, engine, pc>>


\* The event with the given id.
EventOf(eventId) == events[MinOf({i \in 1..Len(events) : events[i].id = eventId})]

\* handleBlockMouseDown(event, evt): the button is pressed on an event's block.
handleBlockMouseDown ==
  /\ pc = "ready"
  /\ steps < MaxSteps
  /\ steps' = steps + 1
  /\ \E eventId \in EventIds, ratio \in Ratios :
       LET evt == EventOf(eventId)
           clickTime == AtRatio(ratio, timelineSeconds)
       IN /\ evt.start <= clickTime
          /\ clickTime <= evt.start + evt.duration[1]
          /\ drag' = Some([type |-> "move", eventId |-> evt.id,
                           studentId |-> evt.studentId, offset |-> clickTime - evt.start])
  /\ UNCHANGED <<students, events, timelineSeconds, timeStep, created, nextStudentRef,
                 engine, pc>>

\* handleResizeMouseDown(event, evt): the button is pressed on a resize handle.
handleResizeMouseDown ==
  /\ pc = "ready"
  /\ steps < MaxSteps
  /\ steps' = steps + 1
  /\ \E eventId \in EventIds :
       drag' = Some([type |-> "resize", eventId |-> eventId,
                    studentId |-> EventOf(eventId).studentId, offset |-> 0])
  /\ UNCHANGED <<students, events, timelineSeconds, timeStep, created, nextStudentRef,
                 engine, pc>>

\* The timelineSeconds and timeStep handleMove reads: those of the render in
\* which the effect that installs it ran, the first one (its dependency list
\* is empty).
moveTimelineSeconds == DEFAULT_TIMELINE_SECONDS
moveTimeStep == DEFAULT_TIME_STEP

\* What handleMove makes of an event, the pointer being at a time.
Dragged(item, time) ==
  IF item.id # drag[1].eventId THEN item
  ELSE IF drag[1].type = "move"
  THEN [item EXCEPT !.start =
          clamp(Round(time - drag[1].offset, moveTimeStep) * moveTimeStep,
                0, moveTimelineSeconds - item.duration[1])]
  ELSE [item EXCEPT !.duration =
          Some(clamp(Round(time - item.start, moveTimeStep) * moveTimeStep,
                     moveTimeStep, moveTimelineSeconds - item.start))]

\* handleMove(event): the pointer moves while the button is down.
handleMove ==
  /\ pc = "ready"
  /\ steps < MaxSteps
  /\ steps' = steps + 1
  /\ drag # None
  /\ \E ratio \in Ratios :
       events' = [i \in 1..Len(events) |->
                   Dragged(events[i], AtRatio(ratio, moveTimelineSeconds))]
  /\ UNCHANGED <<students, timelineSeconds, timeStep, drag, created, nextStudentRef,
                 engine, pc>>

\* handleUp(): the button is released.
handleUp ==
  /\ pc = "ready"
  /\ steps < MaxSteps
  /\ steps' = steps + 1
  /\ drag # None
  /\ drag' = None
  /\ UNCHANGED <<students, events, timelineSeconds, timeStep, created, nextStudentRef,
                 engine, pc>>

\* The values typed in the start and duration fields.
FieldValues == {995, 7000}

\* The start field of the selected event is changed.
editStart ==
  /\ pc = "ready"
  /\ steps < MaxSteps
  /\ steps' = steps + 1
  /\ \E eventId \in EventIds, value \in FieldValues :
       LET selectedEvent == EventOf(eventId)
           nextStart == clamp(Round(value, timeStep) * timeStep, 0,
                              timelineSeconds - selectedEvent.duration[1])
       IN events' = [i \in 1..Len(events) |->
                      IF events[i].id = eventId
                      THEN [events[i] EXCEPT !.start = nextStart] ELSE events[i]]
  /\ UNCHANGED <<students, timelineSeconds, timeStep, drag, created, nextStudentRef,
                 engine, pc>>

\* The duration field of the selected event is changed.
editDuration ==
  /\ pc = "ready"
  /\ steps < MaxSteps
  /\ steps' = steps + 1
  /\ \E eventId \in EventIds, value \in FieldValues :
       LET selectedEvent == EventOf(eventId)
           nextDuration == clamp(Round(value, timeStep) * timeStep, timeStep,
                                 timelineSeconds - selectedEvent.start)
       IN events' = [i \in 1..Len(events) |->
                      IF events[i].id = eventId
                      THEN [events[i] EXCEPT !.duration = Some(nextDuration)] ELSE events[i]]
  /\ UNCHANGED <<students, timelineSeconds, timeStep, drag, created, nextStudentRef,
                 engine, pc>>

\* The delete button of the selected event.
deleteEvent ==
  /\ pc = "ready"
  /\ steps < MaxSteps
  /\ steps' = steps + 1
  /\ \E eventId \in EventIds :
       events' = SelectSeq(events, LAMBDA item : item.id # eventId)
  /\ UNCHANGED <<students, timelineSeconds, timeStep, drag, created, nextStudentRef,
                 engine, pc>>

handleTimelineClear ==
  /\ pc = "ready"
  /\ steps < MaxSteps
  /\ steps' = steps + 1
  /\ events' = <<>>
  /\ UNCHANGED <<students, timelineSeconds, timeStep, drag, created, nextStudentRef,
                 engine, pc>>


clampEventsToTimeline(eventList, seconds, step) ==
  [i \in 1..Len(eventList) |->
     LET evt == eventList[i]
         maxStart == Max(0, seconds - evt.duration[1])
         nextStart == clamp(evt.start, 0, maxStart)
         nextDuration == clamp(evt.duration[1], step, seconds - nextStart)
     IN [evt EXCEPT !.start = nextStart, !.duration = Some(nextDuration)]]

\* The values entered in the timeline-length field, in hundredths of a second.
TimelineValues == {1049, 70000}

\* updateTimelineSeconds(value)
updateTimelineSeconds ==
  /\ pc = "ready"
  /\ steps < MaxSteps
  /\ steps' = steps + 1
  /\ \E value \in TimelineValues :
       LET nextSeconds == clamp(Round(value, 100) * 100, TIMELINE_MIN, TIMELINE_MAX)
       IN /\ timelineSeconds' = nextSeconds
          /\ events' = clampEventsToTimeline(events, nextSeconds, timeStep)
  /\ UNCHANGED <<students, timeStep, drag, created, nextStudentRef, engine, pc>>

\* The values entered in the time-resolution field, in thousandths of a second.
TimeStepValues == {254, 2000}

\* What updateTimeStep makes of an event.
Restepped(evt, nextStep) ==
  LET nextStart == clamp(Round(evt.start, nextStep) * nextStep, 0, timelineSeconds)
      nextDuration == clamp(Round(evt.duration[1], nextStep) * nextStep, nextStep,
                            Max(nextStep, timelineSeconds - nextStart))
  IN [evt EXCEPT !.start = nextStart, !.duration = Some(nextDuration)]

\* updateTimeStep(value)
updateTimeStep ==
  /\ pc = "ready"
  /\ steps < MaxSteps
  /\ steps' = steps + 1
  /\ \E value \in TimeStepValues :
       LET nextStep == clamp(Round(value, 10), TIME_STEP_MIN, TIME_STEP_MAX)
       IN /\ timeStep' = nextStep
          /\ events' = [i \in 1..Len(events) |-> Restepped(events[i], nextStep)]
  /\ UNCHANGED <<students, timelineSeconds, drag, created, nextStudentRef, engine, pc>>

\* addStudent()
addStudent ==
  /\ pc = "ready"
  /\ steps < MaxSteps
  /\ steps' = steps + 1
  /\ students' = Append(students, NewStudent(nextStudentRef))
  /\ nextStudentRef' = nextStudentRef + 1
  /\ UNCHANGED <<events, timelineSeconds, timeStep, drag, created, engine, pc>>

\* removeStudent(studentId) without the filter of the events.
removeStudentKeepEvents ==
  /\ pc = "ready"
  /\ steps < MaxSteps
  /\ steps' = steps + 1
  /\ \E studentId \in StudentIds :
       /\ students' = SelectSeq(students, LAMBDA student : student.id # studentId)
       /\ events' = events
  /\ UNCHANGED <<timelineSeconds, timeStep, drag, created, nextStudentRef, engine, pc>>

\* removeStudent(studentId)
removeStudent ==
  /\ pc = "ready"
  /\ steps < MaxSteps
  /\ steps' = steps + 1
  /\ \E studentId \in StudentIds :
       /\ students' = SelectSeq(students, LAMBDA student : student.id # studentId)
       /\ events' = SelectSeq(events, LAMBDA evt : evt.studentId # studentId)
  /\ UNCHANGED <<timelineSeconds, timeStep, drag, created, nextStudentRef, engine, pc>>

\* removeExSkill(studentId, exId)
removeExSkill ==
  /\ pc = "ready"
  /\ steps < MaxSteps
  /\ steps' = steps + 1
  /\ \E i \in 1..Len(students) : \E k \in 1..Len(students[i].ex) :
       LET studentId == students[i].id
           exId == students[i].ex[k].id
       IN /\ students' = [j \in 1..Len(students) |->
                           IF students[j].id = studentId
                           THEN [students[j] EXCEPT !.ex =
                                   SelectSeq(students[j].ex, LAMBDA ex : ex.id # exId)]
                           ELSE students[j]]
          /\ events' = SelectSeq(events, LAMBDA evt :
                          ~(/\ evt.studentId = studentId
                            /\ evt.skillType = "ex"
                            /\ evt.skillId = exId))
  /\ UNCHANGED <<timelineSeconds, timeStep, drag, created, nextStudentRef, engine, pc>>


\* What normalizeEvents makes of one event of a snapshot: a list of one event,
\* or of none when the event is dropped.
NormalizedEvent(studentList, evt, step) ==
  IF evt.id = None \/ evt.studentId = None \/ evt.start = None THEN <<>>
  ELSE LET student == FindStudent(studentList, evt.studentId[1])
           skillType == OrElse(evt.skillType, "ex")
           skillId == IF evt.skillId # None THEN evt.skillId ELSE evt.exId
           skill == FindSkill(student[1], skillType, skillId[1])
           target == IF evt.target \in {Some("all"), Some("student"), Some("enemy")}
                     THEN evt.target[1] ELSE "self"
           targetStudentIds ==
             IF target = "student"
             THEN (IF HasLength(evt.targetStudentIds) THEN evt.targetStudentIds
                   ELSE Some(<<evt.studentId[1]>>))
             ELSE None
       IN IF student = None THEN <<>>
          ELSE IF skillId = None THEN <<>>
          ELSE IF skill = None THEN <<>>
          ELSE <<[id |-> evt.id[1], studentId |-> evt.studentId[1],
                  skillType |-> skillType, skillId |-> skillId[1],
                  start |-> evt.start[1],
                  duration |->
                    IF evt.duration # None THEN evt.duration
                    ELSE Some(getSkillDuration(skill[1].buffs,
                                Max(step, DEFAULT_EX_EVENT_DURATION))),
                  target |-> target, targetStudentIds |-> targetStudentIds,
                  buffTargets |-> evt.buffTargets]>>

normalizeEvents(studentList, eventList, step) ==
  LET f[i \in 0..Len(eventList)] ==
        IF i = 0 THEN <<>>
        ELSE f[i - 1] \o NormalizedEvent(studentList, eventList[i], step)
  IN f[Len(eventList)]

\* An event of a snapshot: Partial<ExEvent> & { exId?: string }.
SnapshotEvent(studentId, skillType, skillId, exId, start, duration, target) ==
  [id |-> None, studentId |-> studentId, skillType |-> skillType, skillId |-> skillId,
   exId |-> exId, start |-> start, duration |-> duration, target |-> target,
   targetStudentIds |-> None, buffTargets |-> <<>>]

\* The events a snapshot may hold: a well-formed one, one that runs over the
\* end of the timeline, an ns event without a duration, a legacy event (exId,
\* no skillType) with a negative start and a duration below any timeStep, an
\* event of a student who is not in the snapshot, an event of a skill its
\* owner does not have, an event without a start, and a legacy event (no
\* skillType) whose skillId is the id of its owner's ns skill.
SnapshotEvents ==
  {SnapshotEvent(Some(STUDENT_A), Some("ex"), Some("ex_student_a_1"), None,
                 Some(0), Some(600), Some("self")),
   SnapshotEvent(Some(STUDENT_A), Some("ex"), Some("ex_student_a_1"), None,
                 Some(5000), Some(2000), Some("all")),
   SnapshotEvent(Some(STUDENT_B), Some("ns"), Some("ns_student_b"), None,
                 Some(900), None, Some("student")),
   SnapshotEvent(Some(STUDENT_A), None, None, Some("ex_student_a_1"),
                 Some(-100), Some(3), None),
   SnapshotEvent(Some("s.removed"), Some("ex"), Some("ex_student_a_1"), None,
                 Some(0), Some(600), Some("self")),
   SnapshotEvent(Some(STUDENT_A), Some("ex"), Some("ex_removed"), None,
                 Some(0), Some(600), Some("self")),
   SnapshotEvent(Some(STUDENT_A), Some("ex"), Some("ex_student_a_1"), None,
                 None, Some(600), Some("self")),
   SnapshotEvent(Some(STUDENT_B), None, Some("ns_student_b"), None,
                 Some(900), Some(1200), Some("self"))}

\* The event lists of a snapshot: no event, or one, whose id is 101.
SnapshotEventLists ==
  {<<>>} \cup {<<[evt EXCEPT !.id = Some(101)]>> : evt \in SnapshotEvents}

\* The values JSON.parse may give for timelineSeconds and timeStep: absent,
\* inside the range of the settings inputs, or outside of it.
SnapshotSeconds == {None, Some(1000), Some(500)}
SnapshotSteps == {None, Some(100), Some(200)}

\* A snapshot's list of students other than the default one.
SnapshotStudents == <<defaultStudents[2]>>

\* The snapshots parseState may return for the token of the URL. The events
\* field is absent (None) or present (Some); eventsIsList is FALSE when the
\* value present is not a list.
Snapshots ==
  {[students |-> defaultStudents, events |-> Some(eventList), eventsIsList |-> TRUE,
    timelineSeconds |-> seconds, timeStep |-> step] :
     eventList \in SnapshotEventLists,
     seconds \in {None, Some(1000)},
     step \in {None, Some(100)}}
  \cup {[students |-> defaultStudents, events |-> Some(<<>>), eventsIsList |-> TRUE,
         timelineSeconds |-> seconds, timeStep |-> step] :
          seconds \in SnapshotSeconds, step \in SnapshotSteps}
  \cup {[students |-> SnapshotStudents, events |-> eventField, eventsIsList |-> isList,
         timelineSeconds |-> Some(1000), timeStep |-> None] :
          eventField \in {None, Some(<<>>)}, isList \in BOOLEAN}

\* parseState(value): null (None) when the token cannot be decoded or parsed
\* or the parsed value has no students, the parsed value otherwise.
ParseResults == {None} \cup {Some(snapshot) : snapshot \in Snapshots}

\* The results the load has to refuse: null, and a snapshot without a
\* well-formed list of events.
Malformed(parsed) ==
  \/ parsed = None
  \/ parsed[1].events = None
  \/ ~ parsed[1].eventsIsList

\* What handleLoadFromUrl sets from a snapshot whose events, when present,
\* are a list.
LoadedState(snapshot) ==
  LET nextTimeline == OrElse(snapshot.timelineSeconds, DEFAULT_TIMELINE_SECONDS)
      nextTimeStep == OrElse(snapshot.timeStep, DEFAULT_TIME_STEP)
      normalized == normalizeEvents(snapshot.students,
                                    OrElse(snapshot.events, <<>>),
                                    OrElse(snapshot.timeStep, DEFAULT_TIME_STEP))
  IN [students |-> snapshot.students,
      timelineSeconds |-> nextTimeline,
      timeStep |-> nextTimeStep,
      events |-> clampEventsToTimeline(normalized, nextTimeline, nextTimeStep)]

\* handleLoadFromUrl() for the result parsed of parseState.
\* parsed.events.flatMap throws a TypeError when parsed.events is present and
\* not a list: the handler stops there, after applyStudents, and pc becomes
\* "failed".
LoadFromUrl(parsed) ==
  IF parsed = None
  THEN /\ pc' = "ready"
       /\ UNCHANGED <<students, events, timelineSeconds, timeStep>>
  ELSE IF parsed[1].events # None /\ ~ parsed[1].eventsIsList
  THEN /\ students' = parsed[1].students
       /\ events' = <<>>
       /\ pc' = "failed"
       /\ UNCHANGED <<timelineSeconds, timeStep>>
  ELSE LET loaded == LoadedState(parsed[1])
       IN /\ students' = loaded.students
          /\ timelineSeconds' = loaded.timelineSeconds
          /\ timeStep' = loaded.timeStep
          /\ events' = loaded.events
          /\ pc' = "ready"

\* handleLoadFromUrl(), run once when App is mounted: nothing changes when the
\* URL has no token.
handleLoadFromUrl ==
  /\ pc = "mount"
  /\ \/ /\ pc' = "ready"
        /\ UNCHANGED <<students, events, timelineSeconds, timeStep>>
     \/ \E parsed \in ParseResults : LoadFromUrl(parsed)
  /\ UNCHANGED <<drag, created, nextStudentRef, steps, engine>>

NextEditor ==
  \/ handleLoadFromUrl
  \/ handleDrop
  \/ handleBlockMouseDown
  \/ handleResizeMouseDown
  \/ handleMove
  \/ handleUp
  \/ editStart
  \/ editDuration
  \/ deleteEvent
  \/ handleTimelineClear
  \/ updateTimelineSeconds
  \/ updateTimeStep
  \/ addStudent
  \/ removeStudent
  \/ removeExSkill

SpecEditor == InitEditor /\ [][NextEditor]_vars


(***************************************************************************)
(* Claims about the editor, under SpecEditor                               *)
(***************************************************************************)

\* C19: in every reachable editor state, after any sequence of drops, moves,
\* resizes, start and duration field edits, timeline-length and
\* time-resolution changes, URL load and deletions, every cast event has
\* 0 <= start, start + duration <= timelineSeconds and duration >= timeStep.
C19_EventsWithinTimeline ==
  \A i \in 1..Len(events) :
    /\ 0 <= events[i].start
    /\ events[i].start + events[i].duration[1] <= timelineSeconds
    /\ events[i].duration[1] >= timeStep

\* C20: in every reachable editor state every cast event references a student
\* who is among the students and a skill that exists on that student:
\* removeStudent deletes the events of the removed student, removeExSkill the
\* events placing the removed skill, and the URL load keeps only the events
\* whose owner and skill exist.
C20_EventsReferenceExisting ==
  \A i \in 1..Len(events) : ~ Dangling(events[i])

\* Two events were dropped and student A was then removed: one event is left,
\* so the other, student A's, went with its owner.
C20_Witness ==
  /\ steps = 3
  /\ created = 2
  /\ Len(events) = 1
  /\ STUDENT_A \notin StudentIds
  /\ STUDENT_B \in StudentIds

\* C21: loading a malformed snapshot (a token that cannot be decoded or
\* parsed, or parsed data without students or without a well-formed list of
\* events) leaves students, events, timelineSeconds and timeStep unchanged:
\* the load never applies part of the snapshot and then stops.
C21_MalformedLoadLeavesState ==
  [][\A parsed \in ParseResults :
       (pc = "mount" /\ Malformed(parsed) /\ LoadFromUrl(parsed))
         => UNCHANGED <<students, events, timelineSeconds, timeStep>>]_vars

\* JSON.stringify and JSON.parse of one ExEvent: the fields that are undefined
\* are left out, and the result is read as Partial<ExEvent>.
SerializedEvent(evt) ==
  [id |-> Some(evt.id), studentId |-> Some(evt.studentId),
   skillType |-> Some(evt.skillType), skillId |-> Some(evt.skillId),
   exId |-> None, start |-> Some(evt.start), duration |-> evt.duration,
   target |-> Some(evt.target), targetStudentIds |-> evt.targetStudentIds,
   buffTargets |-> evt.buffTargets]

\* parseState(serializeState(students, events, ..., timelineSeconds, timeStep))
serializeState(studentList, eventList, seconds, step) ==
  [students |-> studentList,
   events |-> Some([i \in 1..Len(eventList) |-> SerializedEvent(eventList[i])]),
   eventsIsList |-> TRUE,
   timelineSeconds |-> Some(seconds), timeStep |-> Some(step)]

\* App.buffInstances of a state of the editor.
BuffInstancesOfState(state) ==
  applyOverwriteRules(buildBuffInstances(state.students, state.events, <<>>, <<>>,
                                         state.timelineSeconds, state.timeStep))

\* The current state of the editor, and the state its share URL loads.
CurrentState ==
  [students |-> students, timelineSeconds |-> timelineSeconds,
   timeStep |-> timeStep, events |-> events]
RoundTripState ==
  LoadedState(serializeState(students, events, timelineSeconds, timeStep))

\* The actors of a state: its students and the enemy.
ActorsOf(state) ==
  {[id |-> state.students[i].id, stats |-> state.students[i].stats] :
     i \in 1..Len(state.students)}
  \cup {target \in StatTargets : target.id = ENEMY_ID}

\* The times at which either list of instances changes, and time 0.
BreakTimes(before, after) ==
  {0} \cup {before[i].start : i \in 1..Len(before)}
      \cup {before[i].end : i \in 1..Len(before)}
      \cup {after[i].start : i \in 1..Len(after)}
      \cup {after[i].end : i \in 1..Len(after)}

\* C22: for every reachable editor state, serializing it and loading the
\* token as handleLoadFromUrl does yields a state with the same resolved
\* instances and the same computeStatsAtTime results at every query time.
C22_RoundTripKeepsEngineOutput ==
  pc = "ready" =>
    LET before == BuffInstancesOfState(CurrentState)
        after == BuffInstancesOfState(RoundTripState)
    IN /\ before = after
       /\ \A target \in ActorsOf(CurrentState), time \in BreakTimes(before, after) :
            computeStatsAtTime(target, time, before)
              = computeStatsAtTime(target, time, after)

\* The event of a snapshot has no skillType, but an id, a start, an owner among
\* the students of the snapshot, and a skill id (skillId or exId) that is the
\* id of one of its owner's skills, ex or ns.
LegacyOfOwnSkill(studentList, evt) ==
  /\ evt.skillType = None
  /\ evt.id # None /\ evt.studentId # None /\ evt.start # None
  /\ (evt.skillId # None \/ evt.exId # None)
  /\ \E i \in 1..Len(studentList) :
       LET skillId == IF evt.skillId # None THEN evt.skillId[1] ELSE evt.exId[1]
       IN /\ studentList[i].id = evt.studentId[1]
          /\ \/ \E k \in 1..Len(studentList[i].ex) : studentList[i].ex[k].id = skillId
             \/ studentList[i].ns # None /\ studentList[i].ns[1].id = skillId

\* C23: normalizeEvents does not reject a legacy event that lacks the
\* skillType tag when it has an id, an existing owner, a start and a skill id
\* (skillId or exId) naming one of the owner's skills, ex or ns: after the
\* load the event is among the events.
C23_LegacyEventsKept ==
  [][\A parsed \in ParseResults :
       (pc = "mount" /\ ~ Malformed(parsed) /\ LoadFromUrl(parsed)) =>
         \A i \in 1..Len(parsed[1].events[1]) :
           LegacyOfOwnSkill(parsed[1].students, parsed[1].events[1][i]) =>
             \E j \in 1..Len(events') : events'[j].id = parsed[1].events[1][i].id[1]]_vars

(***************************************************************************)
(* Claims about the instances and their sources, under SpecBuild           *)
(***************************************************************************)

\* The effects of the skill the event places, none when the event is dangling.
EffectsOfEvent(event) ==
  UNION {IF students[i].id # event.studentId THEN {}
         ELSE IF event.skillType = "ex"
         THEN UNION {Range(students[i].ex[k].buffs) :
                       k \in {k \in 1..Len(students[i].ex) :
                                students[i].ex[k].id = event.skillId}}
         ELSE IF students[i].ns # None /\ students[i].ns[1].id = event.skillId
         THEN Range(students[i].ns[1].buffs)
         ELSE {} :
         i \in 1..Len(students)}

\* The instance maps back to an event of the list and to an effect of the
\* skill that event places.
MapsBack(instance) ==
  \E e \in 1..Len(events) :
    /\ events[e].id = instance.sourceEventId
    /\ \E buff \in EffectsOfEvent(events[e]) : buff.id = instance.sourceBuffId

\* C24: the id of every emitted instance is a function of its event id, its
\* effect-definition id and its target id only, the instance carries
\* sourceEventId and sourceBuffId of the event and the effect it comes from,
\* and applyOverwriteRules leaves id and both fields as they are, so that every
\* resolved instance maps back to an existing event and an effect of that
\* event's skill.
C24_InstancesMapBack ==
  pc = "resolved" =>
    /\ \A i \in 1..Len(raw) :
         /\ raw[i].id = (raw[i].sourceEventId * 10 + raw[i].sourceBuffId) * 10
                          + TargetRank(raw[i].studentId)
         /\ MapsBack(raw[i])
         /\ \E e \in 1..Len(events) : \E buff \in EffectsOfEvent(events[e]) :
              /\ events[e].id = raw[i].sourceEventId
              /\ buff.id = raw[i].sourceBuffId
              /\ raw[i].name = buff.name /\ raw[i].stat = buff.stat
              /\ raw[i].value = buff.value /\ raw[i].stackGroup = buff.stackGroup
              /\ raw[i].start = events[e].start
    /\ \A i, k \in 1..Len(raw) :
         (/\ raw[i].sourceEventId = raw[k].sourceEventId
          /\ raw[i].sourceBuffId = raw[k].sourceBuffId
          /\ raw[i].studentId = raw[k].studentId) => raw[i].id = raw[k].id
    /\ \A j \in 1..Len(resolved) :
         /\ MapsBack(resolved[j])
         /\ \E i \in 1..Len(raw) :
              /\ raw[i].id = resolved[j].id
              /\ raw[i].sourceEventId = resolved[j].sourceEventId
              /\ raw[i].sourceBuffId = resolved[j].sourceBuffId
              /\ raw[i].studentId = resolved[j].studentId

\* C24 witness: two events place skills, an instance of the second effect of
\* a skill is resolved, and an instance of the first event is resolved with
\* its end cut by an instance of the second event.
C24_Witness ==
  /\ pc = "resolved"
  /\ Len(events) = 2
  /\ \E j \in 1..Len(resolved), e \in 1..Len(events) :
       /\ resolved[j].sourceEventId = events[e].id
       /\ \E buff \in EffectsOfEvent(events[e]) :
            /\ buff.id = resolved[j].sourceBuffId
            /\ \E first \in EffectsOfEvent(events[e]) : first.id < buff.id
  /\ \E j \in 1..Len(resolved), i \in 1..Len(raw) :
       /\ raw[i].id = resolved[j].id
       /\ resolved[j].sourceEventId = events[1].id
       /\ resolved[j].end < raw[i].end

(***************************************************************************)
(* Claims about the settings and the drags of the editor, under SpecEditor *)
(***************************************************************************)

\* C25: in every reachable editor state, also after a URL load,
\* timelineSeconds is within [10, 600] seconds and timeStep within [0.05, 1].
C25_SettingsWithinRange ==
  pc = "ready" =>
    /\ TIMELINE_MIN <= timelineSeconds /\ timelineSeconds <= TIMELINE_MAX
    /\ TIME_STEP_MIN <= timeStep /\ timeStep <= TIME_STEP_MAX

(***************************************************************************)
(* The stat of attack effects, under SpecBuild                             *)
(***************************************************************************)

Stats == {"atk", "crit", "critDmg"}

\* The ids of the attack effects of the students.
AttackIds == {buff.id : buff \in {b \in AllBuffs : b.kind = Some("attack")}}

\* The effects with the stat of every attack effect replaced by restat's.
RestatBuffs(buffs, restat) ==
  [i \in 1..Len(buffs) |->
     IF buffs[i].kind = Some("attack")
     THEN [buffs[i] EXCEPT !.stat = restat[buffs[i].id]]
     ELSE buffs[i]]

\* The students with the stat of every attack effect replaced by restat's, and
\* nothing else changed.
Restat(studentList, restat) ==
  [i \in 1..Len(studentList) |->
     [studentList[i] EXCEPT
        !.ns = IF @ = None THEN None
               ELSE Some([@[1] EXCEPT !.buffs = RestatBuffs(@, restat)]),
        !.ex = [k \in 1..Len(@) |->
                  [@[k] EXCEPT !.buffs = RestatBuffs(@, restat)]]]]

\* The interval of every instance, by instance id.
IntervalsById(instances) ==
  {<<instances[i].id, instances[i].start, instances[i].end>> : i \in 1..Len(instances)}

\* C26: the stat of an attack effect has no influence on the engine output:
\* two inputs that differ only in the stat of attack effects yield the same
\* resolved interval for every instance and the same computeStatsAtTime
\* totals and computed stats at every time.
C26_AttackStatIgnored ==
  pc = "resolved" =>
    \A restat \in [AttackIds -> Stats] :
      LET other == applyOverwriteRules(
                     buildBuffInstances(Restat(students, restat), events, <<>>, <<>>,
                                        timelineSeconds, timeStep))
      IN /\ IntervalsById(other) = IntervalsById(resolved)
         /\ \A target \in StatTargets, time \in 0..timelineSeconds :
              LET here == computeStatsAtTime(target, time, resolved)
                  there == computeStatsAtTime(target, time, other)
              IN here.totals = there.totals /\ here.computed = there.computed

(***************************************************************************)
(* The sweep of applyOverwriteRules on longer timelines                    *)
(***************************************************************************)

\* Two slots of one target, and the intervals of their raw instances: empty
\* and inverted ones (end <= start) are among them, as buildBuffInstances
\* emits such instances.
SweepSlots ==
  {slot \in Slots : slot.studentId = STUDENT_A}
SweepStarts == {0, 1, 2}
SweepEnds == {0, 1, 2, 3}
SweepTimes == SweepStarts \cup SweepEnds

\* The instance lists of length n: the id of an instance is its place.
SweepLists(n) ==
  {[i \in 1..n |-> Instance(i, f[i][1], f[i][2], f[i][3])] :
     f \in [1..n -> SweepSlots \X SweepStarts \X SweepEnds]}

InitSweep ==
  /\ students = ModelStudents
  /\ events = <<>>
  /\ timelineSeconds = 3
  /\ timeStep = 1
  /\ drag = None
  /\ created = 0
  /\ nextStudentRef = 1
  /\ steps = 0
  /\ \E n \in 0..MaxRaw : raw \in SweepLists(n)
  /\ resolved = <<>>
  /\ permuted = [input |-> <<>>, output |-> <<>>]
  /\ again = <<>>
  /\ lanes = NoLanes
  /\ stats = NoStats
  /\ pc = "raw"

NextSweep == Resolve

SpecSweep == InitSweep /\ [][NextSweep]_vars

\* The places of the raw instances of the slot that have started by time.
StartedBy(key, time) ==
  {i \in 1..Len(raw) : SlotKey(raw[i]) = key /\ raw[i].start <= time}

\* Of these, the one with the greatest (start, id).
LatestStarted(key, time) ==
  CHOOSE i \in StartedBy(key, time) :
    \A k \in StartedBy(key, time) :
      \/ raw[k].start < raw[i].start
      \/ raw[k].start = raw[i].start /\ raw[k].id <= raw[i].id

\* The ids of the resolved instances of the slot that are live at time.
LiveIds(key, time) ==
  {resolved[j].id : j \in {j \in 1..Len(resolved) :
      /\ SlotKey(resolved[j]) = key
      /\ resolved[j].start <= time /\ time < resolved[j].end}}

\* C27: after applyOverwriteRules, for every slot and every time t, the
\* instance live at t is the raw instance of the slot with the greatest
\* (start, id) among those with start <= t, and nothing is live in the slot at
\* t when that raw instance does not cover t: an earlier, longer instance
\* never resumes after a later, shorter one of its slot has ended.
C27_LatestStartedIsLive ==
  pc = "resolved" =>
    \A i \in 1..Len(raw), time \in SweepTimes :
      LET key == SlotKey(raw[i])
      IN IF StartedBy(key, time) = {} THEN LiveIds(key, time) = {}
         ELSE LET top == raw[LatestStarted(key, time)]
              IN IF top.start <= time /\ time < top.end
                 THEN LiveIds(key, time) = {top.id}
                 ELSE LiveIds(key, time) = {}

\* C27 witness: a long instance [0, 3) and a later, shorter one [1, 2) of its
\* slot; the long one is live at 0, the short one at 1, and nothing at 2.
C27_Witness ==
  /\ pc = "resolved"
  /\ \E i, k \in 1..Len(raw) :
       /\ SlotKey(raw[i]) = SlotKey(raw[k])
       /\ raw[i].start = 0 /\ raw[i].end = 3
       /\ raw[k].start = 1 /\ raw[k].end = 2
       /\ LiveIds(SlotKey(raw[i]), 0) = {raw[i].id}
       /\ LiveIds(SlotKey(raw[i]), 1) = {raw[k].id}
       /\ LiveIds(SlotKey(raw[i]), 2) = {}

\* C28: applyOverwriteRules leaves its input list and the instances of it
\* unchanged, and every returned instance equals one raw input instance in
\* every field except end, which is never greater than the raw end: no
\* instance is created that was not in the input.
C28_InputUnchangedOutputFromInput ==
  pc = "resolved" =>
    /\ raw = permuted.input
    /\ \A j \in 1..Len(resolved) :
         \E i \in 1..Len(permuted.input) :
           /\ resolved[j] = [permuted.input[i] EXCEPT !.end = resolved[j].end]
           /\ resolved[j].end <= permuted.input[i].end

\* C28 witness: a returned instance whose end was cut below the end of the raw
\* instance it comes from, which still has its own end in the input.
C28_Witness ==
  /\ pc = "resolved"
  /\ \E j \in 1..Len(resolved), i \in 1..Len(raw) :
       /\ resolved[j].id = raw[i].id
       /\ resolved[j].end < raw[i].end
       /\ raw[i] = permuted.input[i]

\* A cast event lies within the timeline: 0 <= start,
\* start + duration <= timelineSeconds and duration >= timeStep.
WithinTimeline(evt, seconds, step) ==
  /\ 0 <= evt.start
  /\ evt.start + evt.duration[1] <= seconds
  /\ evt.duration[1] >= step

\* The dragged event snapped and clamped against the current timelineSeconds
\* and timeStep, the pointer being at a ratio of the track.
DraggedAgainstCurrent(item, ratio) ==
  LET time == AtRatio(ratio, timelineSeconds)
  IN IF item.id # drag[1].eventId THEN item
     ELSE IF drag[1].type = "move"
     THEN [item EXCEPT !.start =
             clamp(Round(time - drag[1].offset, timeStep) * timeStep,
                   0, timelineSeconds - item.duration[1])]
     ELSE [item EXCEPT !.duration =
             Some(clamp(Round(time - item.start, timeStep) * timeStep,
                        timeStep, timelineSeconds - item.start))]

\* C29: a move or resize drag performed after timelineSeconds or timeStep has
\* changed snaps and clamps the dragged event against the current
\* timelineSeconds and timeStep, not against the values in force when the
\* mouse handlers were registered, so an event within the timeline is still
\* within it afterwards.
C29_DragUsesCurrentSettings ==
  [][handleMove =>
       /\ \E ratio \in Ratios :
            events' = [i \in 1..Len(events) |-> DraggedAgainstCurrent(events[i], ratio)]
       /\ \A i \in 1..Len(events) :
            WithinTimeline(events[i], timelineSeconds, timeStep)
              => WithinTimeline(events'[i], timelineSeconds, timeStep)]_vars

\* C30: updateTimeStep applied to a state in which every cast event has
\* 0 <= start, start + duration <= timelineSeconds and duration >= timeStep
\* leaves every event with the same three conditions for the new timeStep: no
\* event ends up with start = timelineSeconds or with
\* start + duration > timelineSeconds after the re-snapping.
C30_UpdateTimeStepKeepsEventsWithin ==
  [][(/\ updateTimeStep
      /\ \A i \in 1..Len(events) :
           WithinTimeline(events[i], timelineSeconds, timeStep))
       => \A i \in 1..Len(events') :
            WithinTimeline(events'[i], timelineSeconds', timeStep')]_vars

====
